---- MODULE Spec2Model ----
(***************************************************************************)
(* Remote-Jobs-Aggregator: the ingestion pipeline as state machines.       *)
(*   - JobDeduplicator.deduplicate_jobs  (backend/services/deduplicator.py)*)
(*   - BaseScraper.fetch_url             (backend/scrapers/base.py)        *)
(*   - the adapters' item parsers        (backend/scrapers/*.py)           *)
(*   - scrape_all_sources                (scripts/run_scraper.py)          *)
(* Python strings are sequences of one-character strings; a dict field is  *)
(* a tagged value (absent key, None, or a string).                         *)
(***************************************************************************)
EXTENDS Integers, Sequences, FiniteSets, TLC

\* ------------------------------------------------------------ bounds
\* Longest input list handed to deduplicate_jobs.
MaxJobs == 3
\* Most items in one upstream payload.
MaxItems == 2

\* ------------------------------------------------------------ state
\* JobDeduplicator.deduplicate_jobs
VARIABLES
    jobs,                \* deduplicate_jobs: the input list
    existing_urls,       \* the caller's known-URL set
    idx,                 \* position of the for loop in jobs
    seen_urls,           \* local: seen_urls
    unique_jobs,         \* local: unique_jobs
    duplicates_removed,  \* local: duplicates_removed
    accepted_at,         \* history: the positions in jobs of the records appended
    dpc,                 \* "idle" | "loop" | "returned" | "raised"
    second               \* the outcome of calling deduplicate_jobs on the returned list

dedupVars ==
    <<jobs, existing_urls, idx, seen_urls, unique_jobs, duplicates_removed,
      accepted_at, dpc, second>>

\* BaseScraper and the adapter that uses it
VARIABLES
    session,      \* self.session: "none" | "open" | "closed"
    rate_limit,   \* self.rate_limit
    max_retries,  \* self.max_retries
    adapter,      \* the adapter whose scrape_jobs runs: "single" | "careers"
    apc,          \* scrape_jobs: "new" | "one" | "api" | "html" | "done" | "raised"
    api_idx,      \* _try_api_endpoints: position in api_urls
    ajobs,        \* where the returned jobs came from: "none" | "api" | "html"
    fpc,          \* fetch_url: "idle" | "sleeping" | "requesting" | "reading" |
                  \*            "limited" | "returned" | "raised"
    furl,         \* fetch_url: url
    fresp,        \* what the request of this call met
    fresult,      \* the value fetch_url returns
    attempts,     \* requests issued by this call of fetch_url
    clock,        \* now
    net_log       \* history: the sleeps and requests of this scraper, in order

fetchVars ==
    <<session, rate_limit, max_retries, adapter, apc, api_idx, ajobs, fpc, furl,
      fresp, fresult, attempts, clock, net_log>>

\* An adapter's scrape_jobs, from the fetched item list on
VARIABLES
    p_adapter,   \* "generic" | "generic_rss" | "greenhouse" | "lever" | "smartrecruiters"
                 \* | "wwr" | "remoteok_rss"
    p_payload,   \* what fetch_url returned to scrape_jobs
    p_items,     \* the upstream items, in upstream order
    p_idx,       \* position of the for loop in the items
    p_jobs,      \* local: jobs
    ppc          \* "idle" | "start" | "loop" | "returned" | "raised"

parseVars == <<p_adapter, p_payload, p_items, p_idx, p_jobs, ppc>>

\* scrape_all_sources
VARIABLES
    config_file,              \* sources.yaml: "ok" | "missing" | "unparsable" | "empty"
    sources,                  \* the configured sources, in the order the sections are read
    WORKDAY_AVAILABLE,        \* module flag set at import
    SMARTRECRUITERS_AVAILABLE,\* module flag set at import
    pos,                      \* the source the loops have reached
    rpc,                      \* "start" | "loop" | "open" | "scraped" | "returned" | "raised"
    scraper_session,          \* the current scraper's session: "none" | "open" | "closed"
    sessions,                 \* per source, its scraper's session: "none" | "open" | "closed"
    outcome,                      \* what the current scraper's scrape_jobs did
    all_jobs,                 \* local: all_jobs
    ran,                      \* history: per source, how its turn ended
    yielded,                  \* history: per source, the list its scrape_jobs returned
    main_result                    \* what main returned: status "none" until it has

runVars ==
    <<config_file, sources, WORKDAY_AVAILABLE, SMARTRECRUITERS_AVAILABLE, pos, rpc,
      scraper_session, sessions, outcome, all_jobs, ran, yielded, main_result>>

\* EnhancedRemoteDetector.is_remote_job
VARIABLES
    rd_job,      \* the record is_remote_job is called on
    rd_verdict,  \* what it returned: "none" until it has
    rd_pc,       \* "idle" | "called" | "returned"
    rd_flag      \* what BaseScraper.is_remote_job did on the record's title,
                 \* description and location: "none" | "True" | "False" | "TypeError"

detectorVars == <<rd_job, rd_verdict, rd_pc, rd_flag>>

\* JobClassifier.classify_job
VARIABLES
    cl_classifier, \* "services" (backend/services/job_classifier.py, the one the
                   \* scripts and the API import) | "backend" (backend/job_classifier.py)
    cl_job,        \* the record classify_job is called on
    cl_result,     \* what the call did: a domain returned, or an exception raised
    cl_pc          \* "idle" | "called" | "returned"

classifierVars == <<cl_classifier, cl_job, cl_result, cl_pc>>

\* BaseScraper.extract_salary
VARIABLES
    sal_text,    \* the description text extract_salary is called on
    sal_result,  \* the (min, max) pair it returned
    sal_pc       \* "idle" | "called" | "returned"

salaryVars == <<sal_text, sal_result, sal_pc>>

\* JobDateFilter
VARIABLES
    df_now,      \* datetime.now() when the filter was constructed
    df_cutoff,   \* self.cutoff_date
    df_jobs,     \* filter_recent_jobs: the input list
    df_idx,      \* position of the for loop in the list
    df_recent,   \* local: recent_jobs
    df_kept,     \* history: the positions in the list of the records appended
    df_pc        \* "idle" | "loop" | "returned"

dateFilterVars == <<df_now, df_cutoff, df_jobs, df_idx, df_recent, df_kept, df_pc>>

\* What each component leaves alone.
notDedup ==
    <<fetchVars, parseVars, runVars, detectorVars, classifierVars, salaryVars,
      dateFilterVars>>
notFetch ==
    <<dedupVars, parseVars, runVars, detectorVars, classifierVars, salaryVars,
      dateFilterVars>>
notParse ==
    <<dedupVars, fetchVars, runVars, detectorVars, classifierVars, salaryVars,
      dateFilterVars>>
notRun ==
    <<dedupVars, fetchVars, parseVars, detectorVars, classifierVars, salaryVars,
      dateFilterVars>>
notClassifier ==
    <<dedupVars, fetchVars, parseVars, runVars, detectorVars, salaryVars,
      dateFilterVars>>
notDetector ==
    <<dedupVars, fetchVars, parseVars, runVars, classifierVars, salaryVars,
      dateFilterVars>>
notSalary ==
    <<dedupVars, fetchVars, parseVars, runVars, detectorVars, classifierVars,
      dateFilterVars>>
notDateFilter ==
    <<dedupVars, fetchVars, parseVars, runVars, detectorVars, classifierVars,
      salaryVars>>

\* ------------------------------------------------------------ Python values
Absent == [tag |-> "absent", s |-> <<>>]
None == [tag |-> "none", s |-> <<>>]
Str(s) == [tag |-> "str", s |-> s]

\* dict.get(key, default): the default only when the key is absent; a key
\* present with the value None yields None.
DictGet(v, default) == IF v.tag = "absent" THEN default ELSE v

\* ------------------------------------------------------------ str methods
\* The letters str.lower() changes.
LowerOf ==
    [A |-> "a", B |-> "b", C |-> "c", D |-> "d", E |-> "e", F |-> "f", G |-> "g",
     H |-> "h", I |-> "i", J |-> "j", K |-> "k", L |-> "l", M |-> "m", N |-> "n",
     O |-> "o", P |-> "p", Q |-> "q", R |-> "r", S |-> "s", T |-> "t", U |-> "u",
     V |-> "v", W |-> "w", X |-> "x", Y |-> "y", Z |-> "z"]

IsSpace(c) == c \in {" ", "\t", "\n"}

LowerChar(c) == IF c \in DOMAIN LowerOf THEN LowerOf[c] ELSE c

\* str.lower()
Lower(s) == IF s = <<>> THEN <<>> ELSE [i \in 1..Len(s) |-> LowerChar(s[i])]

RECURSIVE LStrip(_)
LStrip(s) == IF s # <<>> /\ IsSpace(Head(s)) THEN LStrip(Tail(s)) ELSE s

RECURSIVE RStrip(_)
RStrip(s) ==
    IF s # <<>> /\ IsSpace(s[Len(s)]) THEN RStrip(SubSeq(s, 1, Len(s) - 1)) ELSE s

\* str.strip()
Strip(s) == RStrip(LStrip(s))

RECURSIVE SplitAcc(_, _, _)
SplitAcc(s, cur, acc) ==
    IF s = <<>>
    THEN (IF cur = <<>> THEN acc ELSE Append(acc, cur))
    ELSE IF IsSpace(Head(s))
         THEN SplitAcc(Tail(s), <<>>, IF cur = <<>> THEN acc ELSE Append(acc, cur))
         ELSE SplitAcc(Tail(s), Append(cur, Head(s)), acc)

\* str.split(): the maximal runs of non-whitespace characters, in order.
Split(s) == SplitAcc(s, <<>>, <<>>)

\* set(list)
SeqToSet(q) == {q[i] : i \in 1..Len(q)}

\* keyword in text
Contains(text, keyword) ==
    \E i \in 1..(Len(text) - Len(keyword) + 1) :
        SubSeq(text, i, i + Len(keyword) - 1) = keyword

\* ------------------------------------------------------------ test strings
BackendEngineer ==
    <<"B", "a", "c", "k", "e", "n", "d", " ", "E", "n", "g", "i", "n", "e", "e", "r">>
BackendEngineerRemote ==
    <<"B", "a", "c", "k", "e", "n", "d", " ", "E", "n", "g", "i", "n", "e", "e", "r",
      " ", "(", "R", "e", "m", "o", "t", "e", ")">>
FrontendDesigner ==
    <<"F", "r", "o", "n", "t", "e", "n", "d", " ", "D", "e", "s", "i", "g", "n", "e", "r">>
BackendEngineerSpaced ==
    <<" ", "b", "a", "c", "k", "e", "n", "d", " ", " ", "E", "N", "G", "I", "N", "E", "E",
      "R", " ">>
Title4 == <<"a", " ", "b", " ", "c", " ", "d">>
Title5 == <<"a", " ", "b", " ", "c", " ", "d", " ", "e">>
Title6 == <<"a", " ", "b", " ", "c", " ", "d", " ", "e", " ", "f">>
Acme == <<"A", "c", "m", "e">>
AcmeSpaced == <<" ", "A", "C", "M", "E", " ">>
Beta == <<"B", "e", "t", "a">>
Url1 == <<"u", "1">>
Url1Spaced == <<" ", "u", "1", " ">>
Url2 == <<"u", "2">>
Url3 == <<"u", "3">>
Url4 == <<"u", "4">>
Blank == <<" ", " ">>

\* ------------------------------------------------------------ deduplicator
Job(u, t, c) == [apply_url |-> u, title |-> t, company |-> c]

\* The records the input lists are drawn from.
JobPool == {
    Job(Str(Url1), Str(BackendEngineer), Str(Acme)),
    Job(Str(Url2), Str(BackendEngineerRemote), Str(Acme)),
    Job(Str(Url2), Str(FrontendDesigner), Str(Acme)),
    Job(Str(Url1Spaced), Str(FrontendDesigner), Str(<<>>)),
    Job(Str(Url2), Str(BackendEngineerSpaced), Str(AcmeSpaced)),
    Job(Absent, Str(BackendEngineer), Str(Beta)),
    Job(Str(Blank), Str(FrontendDesigner), Str(Beta)),
    Job(None, Str(BackendEngineer), Str(Acme)),
    Job(Str(Url3), Str(Title5), Str(Acme)),
    Job(Str(Url4), Str(Title6), Str(Acme)),
    Job(Str(Url4), Str(Title4), Str(Acme)),
    Job(Str(Url3), None, Str(Acme)),
    Job(Str(Url3), Str(FrontendDesigner), Str(Blank)) }

JobLists == UNION {[1..n -> JobPool] : n \in 0..MaxJobs}

ExistingChoices == {{}, {Url1}}

\* The similarity cutoff 0.8 of _is_similar_job, as the fraction 8/10.
ThresholdNum == 8
ThresholdDen == 10

ZeroScore == [num |-> 0, den |-> 1]

\* The ratio taken over the second word set alone.
SimilarityOverSecond(str1, str2) ==
    LET words1 == SeqToSet(Split(str1))
        words2 == SeqToSet(Split(str2))
    IN  IF words1 = {} \/ words2 = {}
        THEN ZeroScore
        ELSE [num |-> Cardinality(words1 \cap words2), den |-> Cardinality(words2)]

\* _similarity_score: the Jaccard ratio len(intersection) / len(union) of the
\* two word sets, kept as a fraction; 0.0 when either string has no word.
_similarity_score(str1, str2) ==
    IF str1 = <<>> \/ str2 = <<>>
    THEN ZeroScore
    ELSE LET words1 == SeqToSet(Split(str1))
             words2 == SeqToSet(Split(str2))
         IN  IF words1 = {} \/ words2 = {}
             THEN ZeroScore
             ELSE [num |-> Cardinality(words1 \cap words2),
                   den |-> Cardinality(words1 \cup words2)]

\* The cutoff taken as reached by a score of exactly 0.8.
AtOrAboveThreshold(score) == score.num * ThresholdDen >= ThresholdNum * score.den

\* score > 0.8
AboveThreshold(score) == score.num * ThresholdDen > ThresholdNum * score.den

\* dict.get(key, '').lower().strip(): AttributeError on None.
LowerStripped(v) ==
    LET raw == DictGet(v, Str(<<>>))
    IN  IF raw.tag = "none" THEN None ELSE Str(Strip(Lower(raw.s)))

RECURSIVE SimilarScan(_, _, _, _)
SimilarScan(job_title, job_company, existing_jobs, k) ==
    IF k > Len(existing_jobs)
    THEN "False"
    ELSE LET existing_title == LowerStripped(existing_jobs[k].title)
             existing_company == LowerStripped(existing_jobs[k].company)
         IN  IF existing_title.tag = "none" \/ existing_company.tag = "none"
             THEN "AttributeError"
             ELSE IF /\ job_company = existing_company.s
                     /\ AboveThreshold(_similarity_score(job_title, existing_title.s))
                  THEN "True"
                  ELSE SimilarScan(job_title, job_company, existing_jobs, k + 1)

\* _is_similar_job: "True", "False", or the exception it raises.
_is_similar_job(job, existing_jobs) ==
    LET job_title == LowerStripped(job.title)
        job_company == LowerStripped(job.company)
    IN  IF job_title.tag = "none" \/ job_company.tag = "none"
        THEN "AttributeError"
        ELSE IF job_title.s = <<>> \/ job_company.s = <<>>
             THEN "False"
             ELSE SimilarScan(job_title.s, job_company.s, existing_jobs, 1)

\* The record stored with its URL trimmed.
AcceptStripped(unique, job) ==
    Append(unique, [job EXCEPT !.apply_url = Str(Strip(job.apply_url.s))])

\* A record put at the head of the result list.
AcceptFront(unique, job) == <<job>> \o unique

\* unique_jobs.append(job)
Accept(unique, job) == Append(unique, job)

\* What the caller's set holds after seen_urls.add(url), were seen_urls the
\* caller's set itself.
ExistingAliased(existing, url) == existing \cup {url}

\* seen_urls is existing_urls.copy(): seen_urls.add(url) leaves the caller's
\* set as it was.
ExistingAfterAdd(existing, url) == existing

\* An add that is forgotten.
SeenAddNothing(seen, url) == seen

\* The URL of a dropped near-duplicate remembered all the same.
SeenAfterDropAdded(seen, url) == seen \cup {url}

\* A near-duplicate is dropped by `continue` (lines 32-34), before
\* seen_urls.add is reached: seen_urls stays as it was.
SeenAfterDrop(seen, url) == seen

\* seen_urls.add(apply_url)
SeenAdd(seen, url) == seen \cup {url}

\* The exact-URL test with the known set left out.
SeenBeforeLocalOnly(apply_url, seen, unique) ==
    \E k \in 1..Len(unique) : Strip(unique[k].apply_url.s) = apply_url

\* apply_url in seen_urls
SeenBefore(apply_url, seen, unique) == apply_url \in seen

\* One iteration of the for loop of deduplicate_jobs on `job`, from the locals
\* st = [seen, unique, removed, existing, pc].
DedupStepFn(st, job) ==
    LET raw == DictGet(job.apply_url, Str(<<>>))
    IN  IF raw.tag = "none"
        THEN [st EXCEPT !.pc = "raised"]
        ELSE LET apply_url == Strip(raw.s)
             IN  IF apply_url = <<>>
                 THEN st
                 ELSE IF SeenBefore(apply_url, st.seen, st.unique)
                 THEN [st EXCEPT !.removed = @ + 1]
                 ELSE LET is_duplicate == _is_similar_job(job, st.unique)
                      IN  IF is_duplicate = "AttributeError"
                          THEN [st EXCEPT !.pc = "raised"]
                          ELSE IF is_duplicate = "True"
                          THEN [st EXCEPT !.removed = @ + 1,
                                          !.seen = SeenAfterDrop(@, apply_url)]
                          ELSE [st EXCEPT !.seen = SeenAdd(@, apply_url),
                                          !.existing = ExistingAfterAdd(@, apply_url),
                                          !.unique = Accept(@, job)]

RECURSIVE DedupFold(_, _, _)
DedupFold(st, list, k) ==
    IF st.pc = "raised" THEN st
    ELSE IF k > Len(list) THEN [st EXCEPT !.pc = "returned"]
    ELSE DedupFold(DedupStepFn(st, list[k]), list, k + 1)

\* deduplicate_jobs(list, existing) run to its end.
deduplicate_jobs(list, existing) ==
    DedupFold([seen |-> existing, unique |-> <<>>, removed |-> 0,
               existing |-> existing, pc |-> "loop"], list, 1)

NotCalled == [pc |-> "none", unique |-> <<>>, existing |-> {}, given |-> {}]

DedupIdle ==
    /\ jobs = <<>>
    /\ existing_urls = {}
    /\ idx = 0
    /\ seen_urls = {}
    /\ unique_jobs = <<>>
    /\ duplicates_removed = 0
    /\ accepted_at = <<>>
    /\ dpc = "idle"
    /\ second = NotCalled

\* deduplicate_jobs(jobs, existing_urls) entered: lines 12-17.
DedupInit ==
    /\ jobs \in JobLists
    /\ existing_urls \in ExistingChoices
    /\ idx = 1
    /\ seen_urls = existing_urls
    /\ unique_jobs = <<>>
    /\ duplicates_removed = 0
    /\ accepted_at = <<>>
    /\ dpc = "loop"
    /\ second = NotCalled

\* for job in jobs: one iteration (lines 19-38).
DedupLoop ==
    /\ dpc = "loop"
    /\ idx <= Len(jobs)
    /\ LET st == DedupStepFn([seen |-> seen_urls, unique |-> unique_jobs,
                              removed |-> duplicates_removed,
                              existing |-> existing_urls, pc |-> "loop"], jobs[idx])
       IN  /\ seen_urls' = st.seen
           /\ unique_jobs' = st.unique
           /\ duplicates_removed' = st.removed
           /\ existing_urls' = st.existing
           /\ dpc' = st.pc
           /\ accepted_at' = IF Len(st.unique) > Len(unique_jobs)
                              THEN Append(accepted_at, idx)
                              ELSE accepted_at
    /\ idx' = idx + 1
    /\ UNCHANGED <<jobs, second>>
    /\ UNCHANGED notDedup

\* return unique_jobs (lines 40-43).
DedupReturn ==
    /\ dpc = "loop"
    /\ idx > Len(jobs)
    /\ dpc' = "returned"
    /\ UNCHANGED <<jobs, existing_urls, idx, seen_urls, unique_jobs,
                   duplicates_removed, accepted_at, second>>
    /\ UNCHANGED notDedup

\* The caller hands the returned list back to deduplicate_jobs, with no known
\* set or with the set it passed before.
DedupAgain ==
    /\ dpc = "returned"
    /\ second = NotCalled
    /\ \E given \in {{}, existing_urls} :
          LET st == deduplicate_jobs(unique_jobs, given)
          IN  second' = [pc |-> st.pc, unique |-> st.unique,
                         existing |-> st.existing, given |-> given]
    /\ UNCHANGED <<jobs, existing_urls, idx, seen_urls, unique_jobs,
                   duplicates_removed, accepted_at, dpc>>
    /\ UNCHANGED notDedup

DedupNext == DedupLoop \/ DedupReturn \/ DedupAgain

\* ------------------------------------------------------------ fetch client
\* Times are in half seconds.
\* BaseScraper.__init__ defaults: rate_limit 2.0 s, max_retries 3.
DefaultRateLimit == 4
DefaultMaxRetries == 3
\* run_scraper's default_delay fallback, 2.5 s.
RunnerRateLimit == 5
\* The 429 cooldown is rate_limit * 3.
CooldownFactor == 3

RateLimits == {0, DefaultRateLimit, RunnerRateLimit}

\* How long a request may take before its response or its failure arrives.
RequestTimes == {0, 1}

\* The number of conventional endpoints _try_api_endpoints probes.
ApiUrls == <<"/api/jobs", "/api/openings", "/jobs.json", "/openings.json">>
CareersUrl == "careers_url"
FeedUrl == "base_url"

\* What a parsed JSON body can be, as the career-page adapter tells them apart:
\* a dict whose jobs list yields jobs, one whose jobs list yields none, one
\* whose jobs value cannot be iterated, a dict with no jobs, a list, a scalar.
JsonShapes ==
    {"dict_jobs", "dict_jobs_unusable", "dict_jobs_scalar", "dict_other", "list",
     "scalar"}

\* The exceptions the request or the body read can raise.
Exceptions == {"TimeoutError", "ClientConnectionError", "ContentTypeError"}

NoResp == [status |-> 0, exc |-> "", ctype |-> "", body |-> ""]

\* What one request can meet: an exception before any response, or a status;
\* a 200 carries a content type and a body that parses or does not.
Responses ==
    {[status |-> 0, exc |-> e, ctype |-> "", body |-> ""] :
        e \in {"TimeoutError", "ClientConnectionError"}}
    \cup {[status |-> c, exc |-> "", ctype |-> "", body |-> ""] :
            c \in {204, 404, 429, 500, 503}}
    \cup {[status |-> 200, exc |-> "", ctype |-> "application/json", body |-> b] :
            b \in JsonShapes \cup {"corrupt"}}
    \cup {[status |-> 200, exc |-> "", ctype |-> "text/html", body |-> "text"]}

NoData == [kind |-> "none", shape |-> "", url |-> ""]
Pending == [kind |-> "pending", shape |-> "", url |-> ""]
JsonData(shape) == [kind |-> "json", shape |-> shape, url |-> ""]
TextData(url) == [kind |-> "text", shape |-> "", url |-> url]

\* A handler that names the client library's errors only.
CaughtClientErrorOnly(exc) == exc \in {"ClientConnectionError", "ContentTypeError"}

\* except Exception: every exception raised inside the try is caught.
Caught(exc) == exc \in Exceptions

\* A delay that is skipped.
NoDelay(rl) == 0

\* await asyncio.sleep(self.rate_limit), before the request.
RequestDelay(rl) == rl

FetchIdle ==
    /\ session = "none"
    /\ rate_limit = DefaultRateLimit
    /\ max_retries = DefaultMaxRetries
    /\ adapter = "single"
    /\ apc = "idle"
    /\ api_idx = 0
    /\ ajobs = "none"
    /\ fpc = "idle"
    /\ furl = ""
    /\ fresp = NoResp
    /\ fresult = Pending
    /\ attempts = 0
    /\ clock = 0
    /\ net_log = <<>>

\* A scraper constructed: BaseScraper.__init__, session None.
FetchInit ==
    /\ session = "none"
    /\ rate_limit \in RateLimits
    /\ max_retries = DefaultMaxRetries
    /\ adapter \in {"single", "careers"}
    /\ apc = "new"
    /\ api_idx = 0
    /\ ajobs = "none"
    /\ fpc = "idle"
    /\ furl = ""
    /\ fresp = NoResp
    /\ fresult = Pending
    /\ attempts = 0
    /\ clock = 0
    /\ net_log = <<>>

\* __aenter__: the session is created.
AEnter ==
    /\ apc = "new"
    /\ session = "none"
    /\ session' = "open"
    /\ UNCHANGED <<rate_limit, max_retries, adapter, apc, api_idx, ajobs, fpc, furl,
                   fresp, fresult, attempts, clock, net_log>>
    /\ UNCHANGED notFetch

\* scrape_jobs entered: the single-fetch adapters go to their one fetch, the
\* career-page adapter to _try_api_endpoints.
ScrapeStart ==
    /\ apc = "new"
    /\ apc' = IF adapter = "careers" THEN "api" ELSE "one"
    /\ api_idx' = IF adapter = "careers" THEN 1 ELSE 0
    /\ UNCHANGED <<session, rate_limit, max_retries, adapter, ajobs, fpc, furl,
                   fresp, fresult, attempts, clock, net_log>>
    /\ UNCHANGED notFetch

\* The url the adapter asks for next.
NextUrl ==
    IF apc = "api" THEN ApiUrls[api_idx]
    ELSE IF apc = "html" THEN CareersUrl
    ELSE FeedUrl

\* fetch_url entered (lines 41-44): RuntimeError unless a session was created.
FetchCall ==
    /\ apc \in {"one", "api", "html"}
    /\ fpc = "idle"
    /\ furl' = NextUrl
    /\ attempts' = 0
    /\ fresp' = NoResp
    /\ fresult' = Pending
    /\ fpc' = IF session = "none" THEN "raised" ELSE "sleeping"
    /\ UNCHANGED <<session, rate_limit, max_retries, adapter, apc, api_idx, ajobs,
                   clock, net_log>>
    /\ UNCHANGED notFetch

\* await asyncio.sleep(self.rate_limit) (line 48).
FetchSleep ==
    /\ fpc = "sleeping"
    /\ LET d == RequestDelay(rate_limit)
       IN  /\ net_log' = Append(net_log, [ev |-> "sleep", at |-> clock, dur |-> d, url |-> furl])
           /\ clock' = clock + d
    /\ fpc' = "requesting"
    /\ UNCHANGED <<session, rate_limit, max_retries, adapter, apc, api_idx, ajobs,
                   furl, fresp, fresult, attempts>>
    /\ UNCHANGED notFetch

\* Where fetch_url goes when `exc` is raised inside its try block.
OnException(exc) == IF Caught(exc) THEN "returned" ELSE "raised"

\* self.session.get(url) (lines 50-64): the request is issued and meets r.
FetchGet ==
    /\ fpc = "requesting"
    /\ \E r \in Responses, t \in RequestTimes :
          /\ net_log' = Append(net_log, [ev |-> "get", at |-> clock, dur |-> t, url |-> furl])
          /\ clock' = clock + t
          /\ fresp' = r
          /\ attempts' = attempts + 1
          /\ IF r.exc # ""
             THEN /\ fpc' = OnException(r.exc)
                  /\ fresult' = IF Caught(r.exc) THEN NoData ELSE Pending
             ELSE IF r.status = 200
             THEN /\ fpc' = "reading"
                  /\ fresult' = Pending
             ELSE IF r.status = 429
             THEN /\ fpc' = "limited"
                  /\ fresult' = Pending
             ELSE /\ fpc' = "returned"
                  /\ fresult' = NoData
    /\ UNCHANGED <<session, rate_limit, max_retries, adapter, apc, api_idx, ajobs, furl>>
    /\ UNCHANGED notFetch

\* Status 200 (lines 51-57): a body announced as JSON is parsed, any other is
\* returned as text with its url; a body that does not parse raises.
FetchRead ==
    /\ fpc = "reading"
    /\ IF fresp.ctype = "application/json"
       THEN IF fresp.body = "corrupt"
            THEN /\ fpc' = OnException("ContentTypeError")
                 /\ fresult' = IF Caught("ContentTypeError") THEN NoData ELSE Pending
            ELSE /\ fpc' = "returned"
                 /\ fresult' = JsonData(fresp.body)
       ELSE /\ fpc' = "returned"
            /\ fresult' = TextData(furl)
    /\ UNCHANGED <<session, rate_limit, max_retries, adapter, apc, api_idx, ajobs,
                   furl, fresp, attempts, clock, net_log>>
    /\ UNCHANGED notFetch

\* Status 429 (lines 58-61): a longer sleep, then None.
FetchCooldown ==
    /\ fpc = "limited"
    /\ LET d == rate_limit * CooldownFactor
       IN  /\ net_log' = Append(net_log, [ev |-> "sleep", at |-> clock, dur |-> d, url |-> furl])
           /\ clock' = clock + d
    /\ fpc' = "returned"
    /\ fresult' = NoData
    /\ UNCHANGED <<session, rate_limit, max_retries, adapter, apc, api_idx, ajobs,
                   furl, fresp, attempts>>
    /\ UNCHANGED notFetch

\* `if response and isinstance(response, dict)` then response.get('jobs', ...)
\* of _try_api_endpoints: what the probe's answer leads to.
\*   "parsed"  the jobs list was parsed and gave jobs
\*   "empty"   the jobs list was parsed and gave none: [] is returned
\*   "next"    no jobs data, or the parse raised: the next endpoint is tried
ProbeVerdict(result) ==
    IF result.kind = "json" /\ result.shape = "dict_jobs" THEN "parsed"
    ELSE IF result.kind = "json" /\ result.shape = "dict_jobs_unusable" THEN "empty"
    ELSE "next"

\* The adapter takes fetch_url's answer and goes on.
AdapterResume ==
    /\ fpc \in {"returned", "raised"}
    /\ apc \in {"one", "api", "html"}
    /\ fpc' = "idle"
    /\ IF apc = "one"
       THEN /\ apc' = IF fpc = "raised" THEN "raised" ELSE "done"
            /\ ajobs' = IF fpc = "returned" /\ fresult.kind # "none" THEN "api" ELSE "none"
            /\ UNCHANGED api_idx
       ELSE IF apc = "api"
       THEN LET v == IF fpc = "raised" THEN "next" ELSE ProbeVerdict(fresult)
            IN  IF v = "parsed"
                THEN /\ apc' = "done"
                     /\ ajobs' = "api"
                     /\ UNCHANGED api_idx
                ELSE IF v = "empty" \/ api_idx = Len(ApiUrls)
                THEN /\ apc' = "html"
                     /\ UNCHANGED <<ajobs, api_idx>>
                ELSE /\ api_idx' = api_idx + 1
                     /\ UNCHANGED <<apc, ajobs>>
       ELSE /\ apc' = IF fpc = "raised" \/ (fresult.kind = "json" /\ fresult.shape = "scalar")
                      THEN "raised" ELSE "done"
            /\ ajobs' = IF fpc = "returned" /\ fresult.kind = "text" THEN "html" ELSE "none"
            /\ UNCHANGED api_idx
    /\ UNCHANGED <<session, rate_limit, max_retries, adapter, furl, fresp, fresult,
                   attempts, clock, net_log>>
    /\ UNCHANGED notFetch

\* __aexit__: the session is closed.
AExit ==
    /\ apc \in {"done", "raised"}
    /\ session = "open"
    /\ session' = "closed"
    /\ UNCHANGED <<rate_limit, max_retries, adapter, apc, api_idx, ajobs, fpc, furl,
                   fresp, fresult, attempts, clock, net_log>>
    /\ UNCHANGED notFetch

FetchNext ==
    \/ AEnter
    \/ ScrapeStart
    \/ FetchCall
    \/ FetchSleep
    \/ FetchGet
    \/ FetchRead
    \/ FetchCooldown
    \/ AdapterResume
    \/ AExit

\* ------------------------------------------------------------ adapters: item parsers
SmartRecruitersJobsUrl ==
    <<"h", "t", "t", "p", "s", ":", "/", "/", "j", "o", "b", "s", ".", "s", "m", "a",
      "r", "t", "r", "e", "c", "r", "u", "i", "t", "e", "r", "s", ".", "c", "o", "m",
      "/">>
GreenhouseSource == <<"G", "r", "e", "e", "n", "h", "o", "u", "s", "e">>
SmartRecruitersSource == <<"S", "m", "a", "r", "t", "R", "e", "c", "r", "u", "i", "t", "e", "r", "s">>
CompanySlug == <<"a", "c", "m", "e">>
CompanyName == Acme
FeedName == <<"f", "e", "e", "d">>
LeverSource == <<"L", "e", "v", "e", "r">>
LeverJobsUrl ==
    <<"h", "t", "t", "p", "s", ":", "/", "/", "j", "o", "b", "s", ".", "l", "e", "v",
      "e", "r", ".", "c", "o", "/">>
\* Markup that html.parser gives up on: BeautifulSoup raises ParserRejectedMarkup.
RejectedMarkup == <<"<", "!", "[", "x", "[">>
ItemId == <<"7">>
ItemTitle == <<"E", "n", "g", "i", "n", "e", "e", "r">>
ItemText == <<"t", "e", "x", "t">>

\* bool(value) of a str or None.
Truthy(v) == v.tag = "str" /\ v.s # <<>>

\* dict.get(key) with no default: None for an absent key.
DictGetNone(v) == DictGet(v, None)

\* a or b
Or(a, b) == IF Truthy(a) THEN a ELSE b

ParsedJob(title, company, apply_url, source) ==
    [kind |-> "job",
     job |-> [title |-> title, company |-> company, apply_url |-> apply_url,
              source |-> source]]
ParsedNone == [kind |-> "none", job |-> <<>>]
ParseRaised == [kind |-> "raised", job |-> <<>>]

\* An upstream item that is not a JSON object: every .get on it raises.
NotADict == [shape |-> "scalar"]

\* The payload items each adapter is tried on.
GenericItems ==
    {NotADict} \cup
    [shape : {"dict"},
     title : {Str(ItemTitle)},
     apply_url : {Absent, None, Str(<<>>), Str(Url1)},
     url : {Absent, Str(Url2)},
     link : {Absent},
     job_url : {Absent, None, Str(<<>>)},
     description : {Str(ItemText)}]

\* The entries feedparser gives for an RSS feed; an attribute may be missing.
RssEntries ==
    [shape : {"entry"},
     title : {Str(ItemTitle)},
     link : {Absent, Str(Url1), Str(Url2)},
     description : {Absent, Str(ItemText), Str(RejectedMarkup)}]

\* The feed titles the board adapters are tried on.
FeedTitles ==
    {<<"S", "e", "n", "i", "o", "r", " ", "E", "n", "g", "i", "n", "e", "e", "r", " ", "a", "t", " ", "A", "c", "m", "e", " ", "C", "o", "r", "p">>,
     <<"L", "e", "a", "d", " ", "a", "t", " ", "S", "c", "a", "l", "e", " ", "a", "t", " ", "A", "c", "m", "e">>,
     <<"E", "n", "g", "i", "n", "e", "e", "r", " ", "a", "t", " ", "a", "t", " ", "A", "c", "m", "e">>,
     <<"E", "n", "g", "i", "n", "e", "e", "r", " ", "a", "t", " ">>,
     <<"E", "n", "g", "i", "n", "e", "e", "r">>,
     <<"G", "r", "e", "a", "t", " ", "E", "n", "g", "i", "n", "e", "e", "r">>}

\* The entries of the We Work Remotely feed and of the RemoteOK RSS fallback.
BoardEntries ==
    [shape : {"entry"},
     title : {Absent} \cup {Str(x) : x \in FeedTitles},
     link : {Absent, Str(Url1)}]

LeverItems ==
    {NotADict} \cup
    [shape : {"dict"},
     id : {Absent, Str(ItemId)},
     text : {Absent, Str(ItemTitle)},
     applyUrl : {Absent, None, Str(Url1)},
     hostedUrl : {Absent, Str(Url2)},
     description : {Absent, None}]

GreenhouseItems ==
    {NotADict} \cup
    [shape : {"dict"},
     id : {Str(ItemId)},
     title : {None, Str(ItemTitle)},
     absolute_url : {Absent, None, Str(<<>>), Str(Url1)},
     content : {None, Str(ItemText)}]

SmartRecruitersItems ==
    {NotADict} \cup
    [shape : {"dict"},
     id : {Absent, Str(ItemId)},
     name : {Absent, Str(ItemTitle)},
     ref : {Absent, None, Str(<<>>), Str(Url1)},
     jobAd : {Absent, None}]

ItemsOf(a) ==
    IF a = "generic" THEN GenericItems
    ELSE IF a = "generic_rss" THEN RssEntries
    ELSE IF a = "greenhouse" THEN GreenhouseItems
    ELSE IF a = "lever" THEN LeverItems
    ELSE IF a \in {"wwr", "remoteok_rss"} THEN BoardEntries
    ELSE SmartRecruitersItems

\* BeautifulSoup(description, 'html.parser').get_text(strip=True) raises on
\* markup the parser rejects.
HtmlParserRejects(description) == description.s = RejectedMarkup

\* GenericScraper._parse_generic_job: the first truthy of apply_url, url, link,
\* else job_url (default ''); None is returned when that is falsy.
_parse_generic_job(job_data) ==
    IF job_data.shape # "dict" THEN ParseRaised
    ELSE LET title == Or(DictGetNone(job_data.title), Str(<<>>))
             apply_url == Or(DictGetNone(job_data.apply_url),
                             Or(DictGetNone(job_data.url),
                                Or(DictGetNone(job_data.link),
                                   DictGet(job_data.job_url, Str(<<>>)))))
             description == Or(DictGetNone(job_data.description), Str(<<>>))
         IN  IF ~Truthy(apply_url) THEN ParsedNone
             ELSE IF HtmlParserRejects(description) THEN ParseRaised
             ELSE ParsedJob(title, Str(FeedName), apply_url, Str(FeedName))

\* The job_data _scrape_rss_feed builds from a feed entry (lines 68-74):
\* getattr with '' for a missing attribute.
RssJobData(entry) ==
    [shape |-> "dict",
     title |-> DictGet(entry.title, Str(<<>>)),
     apply_url |-> Absent,
     url |-> Absent,
     link |-> DictGet(entry.link, Str(<<>>)),
     job_url |-> Absent,
     description |-> DictGet(entry.description, Str(<<>>))]

\* LeverScraper._parse_lever_job: None without a title; apply_url is applyUrl,
\* else hostedUrl, else a link made of the slug and the id, else the board's
\* address; a None description raises TypeError in is_remote_job's join.
_parse_lever_job(job_data) ==
    IF job_data.shape # "dict" THEN ParseRaised
    ELSE LET job_id == DictGet(job_data.id, Str(<<>>))
             title == DictGet(job_data.text, Str(<<>>))
             first_url == DictGet(job_data.applyUrl, DictGetNone(job_data.hostedUrl))
             apply_url == IF ~Truthy(first_url) /\ Truthy(job_id)
                          THEN Str(LeverJobsUrl \o CompanySlug \o <<"/">> \o job_id.s)
                          ELSE first_url
             description == DictGet(job_data.description, Str(<<>>))
         IN  IF ~Truthy(title) THEN ParsedNone
             ELSE IF description.tag = "none" THEN ParseRaised
             ELSE ParsedJob(title, Str(CompanyName),
                            Or(apply_url, Str(LeverJobsUrl \o CompanySlug)),
                            Str(LeverSource))

\* GreenHouseScraper._parse_greenhouse_job: apply_url is absolute_url (default
\* ''), unchecked; a None title or description raises TypeError in
\* is_remote_job's join.
_parse_greenhouse_job(job_data) ==
    IF job_data.shape # "dict" THEN ParseRaised
    ELSE LET title == DictGet(job_data.title, Str(<<>>))
             apply_url == DictGet(job_data.absolute_url, Str(<<>>))
             description == DictGet(job_data.content, Str(<<>>))
         IN  IF title.tag = "none" \/ description.tag = "none"
             THEN ParseRaised
             ELSE ParsedJob(title, Str(CompanyName), apply_url, Str(GreenhouseSource))

\* SmartRecruiterscraper._parse_smartrecruiters_job: None without a title;
\* jobAd None raises AttributeError; apply_url is ref (default ''), or a link
\* made of the slug and the id when ref is falsy and there is an id.
_parse_smartrecruiters_job(job_data) ==
    IF job_data.shape # "dict" THEN ParseRaised
    ELSE LET job_id == DictGet(job_data.id, Str(<<>>))
             title == DictGet(job_data.name, Str(<<>>))
             ref == DictGet(job_data.ref, Str(<<>>))
             apply_url == IF ~Truthy(ref) /\ Truthy(job_id)
                          THEN Str(SmartRecruitersJobsUrl \o CompanySlug \o <<"/">> \o job_id.s)
                          ELSE ref
         IN  IF ~Truthy(title) THEN ParsedNone
             ELSE IF job_data.jobAd.tag = "none" THEN ParseRaised
             ELSE ParsedJob(title, Str(CompanyName), apply_url, Str(SmartRecruitersSource))

\* try: job = parse(job_data); if job: jobs.append(job)  except Exception: log
AppendParsed(jobs_so_far, parsed) ==
    IF parsed.kind = "job" THEN Append(jobs_so_far, parsed.job) ELSE jobs_so_far

At == <<" ", "a", "t", " ">>
Unknown == <<"U", "n", "k", "n", "o", "w", "n">>
WwrSource == <<"W", "e", " ", "W", "o", "r", "k", " ", "R", "e", "m", "o", "t", "e", "l", "y">>
RemoteOkRssSource == <<"R", "e", "m", "o", "t", "e", "O", "K", " ", "R", "S", "S">>

\* The first position at which sep stands in s.
Find(s, sep) ==
    CHOOSE i \in 1..(Len(s) - Len(sep) + 1) :
        /\ SubSeq(s, i, i + Len(sep) - 1) = sep
        /\ \A j \in 1..(i - 1) : SubSeq(s, j, j + Len(sep) - 1) # sep

RECURSIVE SplitOn(_, _)
\* s.split(sep): the pieces between the occurrences of sep, found from the
\* left, each search starting where the last occurrence ended.
SplitOn(s, sep) ==
    IF ~Contains(s, sep) THEN <<s>>
    ELSE LET i == Find(s, sep)
         IN  <<SubSeq(s, 1, i - 1)>> \o SplitOn(SubSeq(s, i + Len(sep), Len(s)), sep)

RECURSIVE JoinWith(_, _)
\* sep.join(parts)
JoinWith(parts, sep) ==
    IF parts = <<>> THEN <<>>
    ELSE IF Len(parts) = 1 THEN parts[1]
    ELSE parts[1] \o sep \o JoinWith(Tail(parts), sep)

\* WeWorkRemotelyScraper._parse_wwr_job lines 119-132 and
\* FixedRemoteOKScraper._parse_rss_entry lines 113-125: None without a title or
\* a link; the company is the last piece of title.split(' at '), the title
\* the other pieces joined again.
ParseBoardEntry(entry, source) ==
    LET title == DictGet(entry.title, Str(<<>>))
        link == DictGet(entry.link, Str(<<>>))
        parts == SplitOn(title.s, At)
    IN  IF ~Truthy(title) \/ ~Truthy(link) THEN ParsedNone
        ELSE IF Contains(title.s, At) /\ Len(parts) >= 2
             THEN ParsedJob(Str(Strip(JoinWith(SubSeq(parts, 1, Len(parts) - 1), At))),
                            Str(Strip(parts[Len(parts)])), link, Str(source))
             ELSE ParsedJob(title, Str(Unknown), link, Str(source))

_parse_wwr_job(entry) == ParseBoardEntry(entry, WwrSource)

_parse_rss_entry(entry) == ParseBoardEntry(entry, RemoteOkRssSource)

\* What fetch_url can hand to scrape_jobs, by the shape the adapters tell
\* apart: a JSON list, a JSON object whose jobs container (the value under the
\* key the adapter reads) is a list, missing, null, a number or a string, a
\* JSON number, or the {'text', 'url'} of a body that is not JSON.
Payloads ==
    {[shape |-> "list", container |-> "list"],
     [shape |-> "number", container |-> "absent"],
     [shape |-> "text", container |-> "list"]}
    \cup [shape : {"dict"}, container : {"list", "absent", "null", "number", "string"}]

NoPayload == [shape |-> "none", container |-> "absent"]

\* Whether the payload carries the item list the adapter reads.
CarriesItems(a, payload) ==
    IF a \in {"generic_rss", "wwr", "remoteok_rss"} THEN payload.shape = "text"
    ELSE IF a = "greenhouse" THEN payload.shape = "dict" /\ payload.container = "list"
    ELSE payload.container = "list" /\ payload.shape \in {"list", "dict"}

\* GreenHouseScraper.scrape_jobs lines 19-25: `'jobs' not in response` raises
\* on a number and is true of a list; response['jobs'] is iterated as it is.
GreenhouseExtraction(payload) ==
    IF payload.shape = "number" THEN "raise"
    ELSE IF payload.shape \in {"list", "text"} THEN "empty"
    ELSE IF payload.container = "absent" THEN "empty"
    ELSE IF payload.container \in {"null", "number"} THEN "raise"
    ELSE IF payload.container = "string" THEN "chars"
    ELSE "items"

\* LeverScraper.scrape_jobs lines 18-35 and SmartRecruiterscraper.scrape_jobs
\* lines 22-40: a list is taken whole, of a dict the container; a falsy
\* container returns []; anything else is iterated as it is.
ContainerExtraction(payload) ==
    IF payload.shape = "list" THEN "items"
    ELSE IF payload.shape \in {"number", "text"} THEN "empty"
    ELSE IF payload.container \in {"absent", "null"} THEN "empty"
    ELSE IF payload.container = "number" THEN "raise"
    ELSE IF payload.container = "string" THEN "chars"
    ELSE "items"

\* GenericScraper._scrape_json_feed lines 28-45: a list under one of the known
\* keys, else the response itself, which must be a list.
GenericExtraction(payload) ==
    IF payload.shape = "list" THEN "items"
    ELSE IF payload.shape = "dict" /\ payload.container = "list" THEN "items"
    ELSE "empty"

\* GenericScraper._scrape_rss_feed lines 60-66: `'text' not in response`
\* raises on a number; only the text of a body is parsed as a feed.
RssExtraction(payload) ==
    IF payload.shape = "number" THEN "raise"
    ELSE IF payload.shape = "text" THEN "items"
    ELSE "empty"

\* WeWorkRemotelyScraper.scrape_jobs lines 92-116 and
\* FixedRemoteOKScraper._try_rss_fallback lines 57-77: the same test inside the
\* try, whose handler returns [].
BoardExtraction(payload) ==
    IF payload.shape = "text" THEN "items" ELSE "empty"

Extraction(a, payload) ==
    IF a = "generic" THEN GenericExtraction(payload)
    ELSE IF a = "generic_rss" THEN RssExtraction(payload)
    ELSE IF a \in {"wwr", "remoteok_rss"} THEN BoardExtraction(payload)
    ELSE IF a = "greenhouse" THEN GreenhouseExtraction(payload)
    ELSE ContainerExtraction(payload)

\* The adapter's item parser applied to one upstream item.
ParseItem(a, item) ==
    IF a = "generic" THEN _parse_generic_job(item)
    ELSE IF a = "generic_rss" THEN _parse_generic_job(RssJobData(item))
    ELSE IF a = "greenhouse" THEN _parse_greenhouse_job(item)
    ELSE IF a = "lever" THEN _parse_lever_job(item)
    ELSE IF a = "wwr" THEN _parse_wwr_job(item)
    ELSE IF a = "remoteok_rss" THEN _parse_rss_entry(item)
    ELSE _parse_smartrecruiters_job(item)

ParseIdle ==
    /\ p_adapter = "none"
    /\ p_payload = NoPayload
    /\ p_items = <<>>
    /\ p_idx = 0
    /\ p_jobs = <<>>
    /\ ppc = "idle"

\* scrape_jobs has its response from fetch_url.
ParseInit ==
    /\ p_adapter \in {"generic", "generic_rss", "greenhouse", "lever", "smartrecruiters",
                      "wwr", "remoteok_rss"}
    /\ p_payload \in Payloads
    /\ p_items \in (IF CarriesItems(p_adapter, p_payload)
                    THEN UNION {[1..n -> ItemsOf(p_adapter)] : n \in 0..MaxItems}
                    ELSE {<<>>})
    /\ p_idx = 0
    /\ p_jobs = <<>>
    /\ ppc = "start"

\* From the response to the for loop: the item list is taken from the payload,
\* or [] is returned, or the statement raises; a string in the list's place is
\* iterated character by character.
ExtractItems ==
    /\ ppc = "start"
    /\ LET x == Extraction(p_adapter, p_payload)
       IN  /\ ppc' = IF x = "raise" THEN "raised"
                     ELSE IF x = "empty" \/ (x = "items" /\ p_adapter \in {"lever", "smartrecruiters"} /\ p_items = <<>>)
                          THEN "returned"
                     ELSE "loop"
           /\ p_items' = IF x = "chars" THEN <<NotADict, NotADict>> ELSE p_items
    /\ p_idx' = 1
    /\ UNCHANGED <<p_adapter, p_payload, p_jobs>>
    /\ UNCHANGED notParse

\* GenericScraper._scrape_json_feed, one iteration (lines 47-53).
GenericLoop ==
    /\ ppc = "loop"
    /\ p_adapter = "generic"
    /\ p_idx <= Len(p_items)
    /\ p_jobs' = AppendParsed(p_jobs, _parse_generic_job(p_items[p_idx]))
    /\ p_idx' = p_idx + 1
    /\ UNCHANGED <<p_adapter, p_payload, p_items, ppc>>
    /\ UNCHANGED notParse

\* GenericScraper._scrape_rss_feed, one iteration (lines 67-78); an exception
\* leaves the loop for the handler of lines 84-86, which returns [].
GenericRssLoop ==
    /\ ppc = "loop"
    /\ p_adapter = "generic_rss"
    /\ p_idx <= Len(p_items)
    /\ LET parsed == _parse_generic_job(RssJobData(p_items[p_idx]))
       IN  IF parsed.kind = "raised"
           THEN /\ p_jobs' = <<>>
                /\ ppc' = "returned"
           ELSE /\ p_jobs' = AppendParsed(p_jobs, parsed)
                /\ ppc' = ppc
    /\ p_idx' = p_idx + 1
    /\ UNCHANGED <<p_adapter, p_payload, p_items>>
    /\ UNCHANGED notParse

\* GreenHouseScraper.scrape_jobs, one iteration (lines 25-31).
GreenhouseLoop ==
    /\ ppc = "loop"
    /\ p_adapter = "greenhouse"
    /\ p_idx <= Len(p_items)
    /\ p_jobs' = AppendParsed(p_jobs, _parse_greenhouse_job(p_items[p_idx]))
    /\ p_idx' = p_idx + 1
    /\ UNCHANGED <<p_adapter, p_payload, p_items, ppc>>
    /\ UNCHANGED notParse

\* LeverScraper.scrape_jobs, one iteration (lines 35-41).
LeverLoop ==
    /\ ppc = "loop"
    /\ p_adapter = "lever"
    /\ p_idx <= Len(p_items)
    /\ p_jobs' = AppendParsed(p_jobs, _parse_lever_job(p_items[p_idx]))
    /\ p_idx' = p_idx + 1
    /\ UNCHANGED <<p_adapter, p_payload, p_items, ppc>>
    /\ UNCHANGED notParse

\* SmartRecruiterscraper.scrape_jobs, one iteration (lines 40-46).
SmartRecruitersLoop ==
    /\ ppc = "loop"
    /\ p_adapter = "smartrecruiters"
    /\ p_idx <= Len(p_items)
    /\ p_jobs' = AppendParsed(p_jobs, _parse_smartrecruiters_job(p_items[p_idx]))
    /\ p_idx' = p_idx + 1
    /\ UNCHANGED <<p_adapter, p_payload, p_items, ppc>>
    /\ UNCHANGED notParse

\* WeWorkRemotelyScraper.scrape_jobs, one iteration (lines 103-109).
WwrLoop ==
    /\ ppc = "loop"
    /\ p_adapter = "wwr"
    /\ p_idx <= Len(p_items)
    /\ p_jobs' = AppendParsed(p_jobs, _parse_wwr_job(p_items[p_idx]))
    /\ p_idx' = p_idx + 1
    /\ UNCHANGED <<p_adapter, p_payload, p_items, ppc>>
    /\ UNCHANGED notParse

\* FixedRemoteOKScraper._try_rss_fallback, one iteration (lines 66-69).
RemoteOkRssLoop ==
    /\ ppc = "loop"
    /\ p_adapter = "remoteok_rss"
    /\ p_idx <= Len(p_items)
    /\ p_jobs' = AppendParsed(p_jobs, _parse_rss_entry(p_items[p_idx]))
    /\ p_idx' = p_idx + 1
    /\ UNCHANGED <<p_adapter, p_payload, p_items, ppc>>
    /\ UNCHANGED notParse

\* return jobs
ParseReturn ==
    /\ ppc = "loop"
    /\ p_idx > Len(p_items)
    /\ ppc' = "returned"
    /\ UNCHANGED <<p_adapter, p_payload, p_items, p_idx, p_jobs>>
    /\ UNCHANGED notParse

ParseNext ==
    \/ ExtractItems
    \/ GenericLoop
    \/ GenericRssLoop
    \/ GreenhouseLoop
    \/ LeverLoop
    \/ SmartRecruitersLoop
    \/ WwrLoop
    \/ RemoteOkRssLoop
    \/ ParseReturn

\* ------------------------------------------------------------ orchestrator
\* workday_companies[:3] and lever_companies[:5]
WorkdayLimit == 3
LeverLimit == 5

Feed(section, working) == [section |-> section, working |-> working, complete |-> TRUE]
Company(section) == [section |-> section, working |-> TRUE, complete |-> TRUE]
\* An entry that lacks the slug the scraper is constructed from.
Incomplete(section) == [section |-> section, working |-> TRUE, complete |-> FALSE]

\* The configurations a run is tried on; the sections are read in the order
\* rss, json, workday, lever, smartrecruiters, greenhouse.
Configs == {
    <<>>,
    <<Feed("rss", TRUE), Feed("rss", FALSE), Feed("json", TRUE), Company("greenhouse")>>,
    <<Company("workday"), Company("workday"), Company("workday"), Company("workday"),
      Company("greenhouse")>>,
    <<Company("lever"), Company("lever"), Company("lever"), Company("lever"),
      Company("lever"), Company("lever")>>,
    <<Feed("json", FALSE), Company("smartrecruiters"), Incomplete("greenhouse"),
      Company("greenhouse")>> }

IsAts(section) == section \in {"workday", "lever", "smartrecruiters", "greenhouse"}

\* How many entries of source i's section come at or before it.
RankInSection(i) ==
    Cardinality({j \in 1..i : sources[j].section = sources[i].section})

\* Whether the loops run a scraper for source i: feed.get('working', False),
\* the module flags, the slices.
Eligible(i) ==
    LET e == sources[i]
    IN  IF e.section \in {"rss", "json"} THEN e.working
        ELSE IF e.section = "workday"
             THEN WORKDAY_AVAILABLE /\ RankInSection(i) <= WorkdayLimit
        ELSE IF e.section = "lever" THEN RankInSection(i) <= LeverLimit
        ELSE IF e.section = "smartrecruiters" THEN SMARTRECRUITERS_AVAILABLE
        ELSE TRUE

\* A record as the orchestrator sees it: verdict is what
\* EnhancedRemoteDetector.is_remote_job answers for it, remote the flag it carries.
RemoteRecord == [verdict |-> TRUE, remote |-> FALSE, apply_url |-> "url"]
OnsiteRecord == [verdict |-> FALSE, remote |-> TRUE, apply_url |-> "url"]
\* A record whose apply_url is None, as _parse_greenhouse_job returns for an
\* item whose absolute_url is null.
NullUrlRecord == [verdict |-> TRUE, remote |-> FALSE, apply_url |-> "None"]

\* What a scraper's scrape_jobs can do: its fetch gives no data, it raises, or
\* it returns records.
Behaviours ==
    {[fetch |-> "nodata", jobs |-> <<>>], [fetch |-> "raises", jobs |-> <<>>]}
    \cup {[fetch |-> "ok", jobs |-> b] :
            b \in {<<RemoteRecord>>, <<OnsiteRecord>>, <<OnsiteRecord, RemoteRecord>>,
                   <<NullUrlRecord>>}}

NoBehaviour == [fetch |-> "none", jobs |-> <<>>]

\* `if not response: return []` of every adapter's scrape_jobs.
AdapterReturn(b) == IF b.fetch = "nodata" THEN <<>> ELSE b.jobs

Tagged(list, i) ==
    [k \in 1..Len(list) |-> [src |-> i, n |-> k, verdict |-> list[k].verdict,
                             remote |-> list[k].remote, apply_url |-> list[k].apply_url]]

RECURSIVE RemoteOnly(_)
\* for job in all_company_jobs: if remote_detector.is_remote_job(job):
\*     job['remote'] = True; remote_jobs.append(job)
RemoteOnly(list) ==
    IF list = <<>> THEN <<>>
    ELSE IF Head(list).verdict
         THEN <<[Head(list) EXCEPT !.remote = TRUE]>> \o RemoteOnly(Tail(list))
         ELSE RemoteOnly(Tail(list))

\* Every returned record added, whatever the section.
ContributionUnfiltered(section, list) == list

\* What a source adds to all_jobs from the list its scraper returned.
Contribution(section, list) == IF IsAts(section) THEN RemoteOnly(list) ELSE list

\* A failure that ends the loops.
AfterFailureStop(i) == Len(sources) + 1

\* except Exception as e: logger.error(...) -- the for loop goes on.
AfterFailure(i) == i + 1

\* __aenter__ (base.py 27-35): source i's scraper gets its session.
Opened(sess, i) == [sess EXCEPT ![i] = "open"]

\* A session that is left open when the block is left.
LeftOpen(sess, i) == sess

\* __aexit__ (base.py 37-39), run by `async with` however the block is left.
Closed(sess, i) == [sess EXCEPT ![i] = "closed"]

NoRun == [status |-> "none", jobs_scraped |-> 0]

RunIdle ==
    /\ config_file = "none"
    /\ sources = <<>>
    /\ WORKDAY_AVAILABLE = TRUE
    /\ SMARTRECRUITERS_AVAILABLE = TRUE
    /\ pos = 0
    /\ rpc = "idle"
    /\ scraper_session = "none"
    /\ sessions = <<>>
    /\ outcome = NoBehaviour
    /\ all_jobs = <<>>
    /\ ran = <<>>
    /\ yielded = <<>>
    /\ main_result = NoRun

\* main calls scrape_all_sources.
RunInit ==
    /\ config_file \in {"ok", "missing", "unparsable", "empty"}
    /\ sources \in (IF config_file = "ok" THEN Configs ELSE {<<>>})
    /\ WORKDAY_AVAILABLE \in BOOLEAN
    /\ SMARTRECRUITERS_AVAILABLE \in BOOLEAN
    /\ pos = 0
    /\ rpc = "start"
    /\ scraper_session = "none"
    /\ sessions = [i \in 1..Len(sources) |-> "none"]
    /\ outcome = NoBehaviour
    /\ all_jobs = <<>>
    /\ ran = [i \in 1..Len(sources) |-> "unvisited"]
    /\ yielded = [i \in 1..Len(sources) |-> <<>>]
    /\ main_result = NoRun

\* load_sources_config and lines 44-47: a missing file gives {}; a file that
\* does not parse raises out of the function; an empty file gives None, and
\* config.get raises.
LoadConfig ==
    /\ rpc = "start"
    /\ rpc' = IF config_file \in {"unparsable", "empty"} THEN "raised" ELSE "loop"
    /\ pos' = 1
    /\ UNCHANGED <<config_file, sources, WORKDAY_AVAILABLE, SMARTRECRUITERS_AVAILABLE,
                   scraper_session, sessions, outcome, all_jobs, ran, yielded, main_result>>
    /\ UNCHANGED notRun

\* A source the loops pass over: a feed not marked working, a section whose
\* scraper is unavailable, an entry beyond the slice.
SkipSource ==
    /\ rpc = "loop"
    /\ pos <= Len(sources)
    /\ ~Eligible(pos)
    /\ ran' = [ran EXCEPT ![pos] = "skipped"]
    /\ pos' = pos + 1
    /\ UNCHANGED <<config_file, sources, WORKDAY_AVAILABLE, SMARTRECRUITERS_AVAILABLE,
                   rpc, scraper_session, sessions, outcome, all_jobs, yielded, main_result>>
    /\ UNCHANGED notRun

\* async with Scraper(entry[...], ...) as scraper: the constructor raises
\* KeyError on an incomplete entry (caught by the source's except); otherwise
\* __aenter__ opens the session.
OpenScraper ==
    /\ rpc = "loop"
    /\ pos <= Len(sources)
    /\ Eligible(pos)
    /\ IF sources[pos].complete
       THEN /\ scraper_session' = "open"
            /\ sessions' = Opened(sessions, pos)
            /\ rpc' = "open"
            /\ UNCHANGED <<pos, ran>>
       ELSE /\ ran' = [ran EXCEPT ![pos] = "raised"]
            /\ pos' = AfterFailure(pos)
            /\ UNCHANGED <<scraper_session, sessions, rpc>>
    /\ UNCHANGED <<config_file, sources, WORKDAY_AVAILABLE, SMARTRECRUITERS_AVAILABLE,
                   outcome, all_jobs, yielded, main_result>>
    /\ UNCHANGED notRun

\* jobs = await scraper.scrape_jobs()
RunScraper ==
    /\ rpc = "open"
    /\ \E b \in Behaviours : outcome' = b
    /\ rpc' = "scraped"
    /\ UNCHANGED <<config_file, sources, WORKDAY_AVAILABLE, SMARTRECRUITERS_AVAILABLE,
                   pos, scraper_session, sessions, all_jobs, ran, yielded, main_result>>
    /\ UNCHANGED notRun

\* The rest of the source's turn: on an exception __aexit__ closes the session
\* and the except logs it; otherwise the returned list (for an ATS source, its
\* remote records) is added to all_jobs and __aexit__ closes the session.
CloseScraper ==
    /\ rpc = "scraped"
    /\ scraper_session' = "closed"
    /\ sessions' = Closed(sessions, pos)
    /\ rpc' = "loop"
    /\ outcome' = NoBehaviour
    /\ IF outcome.fetch = "raises"
       THEN /\ ran' = [ran EXCEPT ![pos] = "raised"]
            /\ pos' = AfterFailure(pos)
            /\ UNCHANGED <<all_jobs, yielded>>
       ELSE LET list == Tagged(AdapterReturn(outcome), pos)
            IN  /\ all_jobs' = all_jobs \o Contribution(sources[pos].section, list)
                /\ yielded' = [yielded EXCEPT ![pos] = list]
                /\ ran' = [ran EXCEPT ![pos] = outcome.fetch]
                /\ pos' = pos + 1
    /\ UNCHANGED <<config_file, sources, WORKDAY_AVAILABLE, SMARTRECRUITERS_AVAILABLE,
                   main_result>>
    /\ UNCHANGED notRun

\* return all_jobs
ReturnAll ==
    /\ rpc = "loop"
    /\ pos > Len(sources)
    /\ rpc' = "returned"
    /\ UNCHANGED <<config_file, sources, WORKDAY_AVAILABLE, SMARTRECRUITERS_AVAILABLE,
                   pos, scraper_session, sessions, outcome, all_jobs, ran, yielded, main_result>>
    /\ UNCHANGED notRun

\* main, lines 194-196: nothing was scraped.
MainNoJobs ==
    /\ rpc = "returned"
    /\ main_result.status = "none"
    /\ all_jobs = <<>>
    /\ main_result' = [status |-> "completed", jobs_scraped |-> 0]
    /\ UNCHANGED <<config_file, sources, WORKDAY_AVAILABLE, SMARTRECRUITERS_AVAILABLE,
                   pos, rpc, scraper_session, sessions, outcome, all_jobs, ran, yielded>>
    /\ UNCHANGED notRun

\* main, lines 198-255: the records are classified and deduplicated and the
\* summary is returned; deduplicate_jobs raises on a record whose apply_url is
\* None (None has no strip), which the handler of lines 257-259 turns into
\* status "failed".
MainProcess ==
    /\ rpc = "returned"
    /\ main_result.status = "none"
    /\ all_jobs # <<>>
    /\ main_result' = IF \E k \in 1..Len(all_jobs) : all_jobs[k].apply_url = "None"
                 THEN [status |-> "failed", jobs_scraped |-> 0]
                 ELSE [status |-> "completed", jobs_scraped |-> Len(all_jobs)]
    /\ UNCHANGED <<config_file, sources, WORKDAY_AVAILABLE, SMARTRECRUITERS_AVAILABLE,
                   pos, rpc, scraper_session, sessions, outcome, all_jobs, ran, yielded>>
    /\ UNCHANGED notRun

\* main, lines 257-259: scrape_all_sources raised.
MainFailed ==
    /\ rpc = "raised"
    /\ main_result.status = "none"
    /\ main_result' = [status |-> "failed", jobs_scraped |-> 0]
    /\ UNCHANGED <<config_file, sources, WORKDAY_AVAILABLE, SMARTRECRUITERS_AVAILABLE,
                   pos, rpc, scraper_session, sessions, outcome, all_jobs, ran, yielded>>
    /\ UNCHANGED notRun

RunNext ==
    \/ LoadConfig
    \/ SkipSource
    \/ OpenScraper
    \/ RunScraper
    \/ CloseScraper
    \/ ReturnAll
    \/ MainNoJobs
    \/ MainProcess
    \/ MainFailed

\* ------------------------------------------------------------ remote detector
\* str(value): the text itself, 'None' for None.
PyStr(v) == IF v.tag = "none" THEN <<"N", "o", "n", "e">> ELSE v.s

\* load_remote_config's fallback lists (lines 23-32), which sources.yaml
\* replaces when it loads.
StrictKeywords ==
    {<<"r", "e", "m", "o", "t", "e">>,
     <<"1", "0", "0", "%", " ", "r", "e", "m", "o", "t", "e">>,
     <<"f", "u", "l", "l", "y", " ", "r", "e", "m", "o", "t", "e">>,
     <<"d", "i", "s", "t", "r", "i", "b", "u", "t", "e", "d">>,
     <<"w", "o", "r", "k", " ", "f", "r", "o", "m", " ", "a", "n", "y", "w", "h", "e", "r", "e">>}

FlexibleKeywords ==
    {<<"w", "o", "r", "k", " ", "f", "r", "o", "m", " ", "h", "o", "m", "e">>,
     <<"w", "f", "h">>,
     <<"r", "e", "m", "o", "t", "e", " ", "f", "r", "i", "e", "n", "d", "l", "y">>,
     <<"t", "e", "l", "e", "c", "o", "m", "m", "u", "t", "e">>,
     <<"v", "i", "r", "t", "u", "a", "l">>}

AlwaysRemoteCompanies ==
    {<<"g", "i", "t", "l", "a", "b">>, <<"a", "u", "t", "o", "m", "a", "t", "t", "i", "c">>,
     <<"z", "a", "p", "i", "e", "r">>, <<"b", "u", "f", "f", "e", "r">>}

\* remote_locations of is_remote_job (lines 65-68).
remote_locations ==
    {<<"r", "e", "m", "o", "t", "e">>, <<"a", "n", "y", "w", "h", "e", "r", "e">>,
     <<"w", "o", "r", "l", "d", "w", "i", "d", "e">>, <<"g", "l", "o", "b", "a", "l">>,
     <<"d", "i", "s", "t", "r", "i", "b", "u", "t", "e", "d">>,
     <<"w", "o", "r", "k", " ", "f", "r", "o", "m", " ", "h", "o", "m", "e">>,
     <<"v", "i", "r", "t", "u", "a", "l">>}

Joined(a, b, c) == a \o <<" ">> \o b \o <<" ">> \o c

\* _get_searchable_text_safe: title, description and location, '' for a
\* missing or None field, joined by spaces and lowercased.
_get_searchable_text_safe(job_data) ==
    LET Field(v) == IF v.tag = "str" THEN v.s ELSE <<>>
    IN  Lower(Joined(Field(job_data.title), Field(job_data.description),
                     Field(job_data.location)))

\* The number of flexible keywords found in the text (lines 53-56).
flexible_matches(text) == Cardinality({k \in FlexibleKeywords : Contains(text, k)})

\* EnhancedRemoteDetector.is_remote_job (lines 34-77).
is_remote_job(job_data) ==
    LET company == Lower(PyStr(DictGet(job_data.company, Str(<<>>))))
        text_to_check == _get_searchable_text_safe(job_data)
        location == Lower(PyStr(DictGet(job_data.location, Str(<<>>))))
        title == Lower(PyStr(DictGet(job_data.title, Str(<<>>))))
    IN  IF \E c \in AlwaysRemoteCompanies : Contains(company, c) THEN TRUE
        ELSE IF \E k \in StrictKeywords : Contains(text_to_check, k) THEN TRUE
        ELSE IF flexible_matches(text_to_check) >= 2 THEN TRUE
        ELSE IF \E loc \in remote_locations : Contains(location, loc) THEN TRUE
        ELSE Contains(title, <<"r", "e", "m", "o", "t", "e">>)

\* remote_keywords of BaseScraper.is_remote_job (base.py lines 77-83).
BaseRemoteKeywords ==
    {<<"r", "e", "m", "o", "t", "e">>,
     <<"w", "o", "r", "k", " ", "f", "r", "o", "m", " ", "h", "o", "m", "e">>,
     <<"w", "f", "h">>,
     <<"d", "i", "s", "t", "r", "i", "b", "u", "t", "e", "d">>,
     <<"a", "n", "y", "w", "h", "e", "r", "e">>,
     <<"h", "o", "m", "e", " ", "o", "f", "f", "i", "c", "e">>,
     <<"t", "e", "l", "e", "c", "o", "m", "m", "u", "t", "e">>,
     <<"v", "i", "r", "t", "u", "a", "l">>,
     <<"f", "l", "e", "x", "i", "b", "l", "e", " ", "l", "o", "c", "a", "t", "i", "o", "n">>,
     <<"r", "e", "m", "o", "t", "e", " ", "f", "i", "r", "s", "t">>,
     <<"r", "e", "m", "o", "t", "e", " ", "f", "r", "i", "e", "n", "d", "l", "y">>,
     <<"f", "u", "l", "l", "y", " ", "r", "e", "m", "o", "t", "e">>,
     <<"1", "0", "0", "%", " ", "r", "e", "m", "o", "t", "e">>,
     <<"r", "e", "m", "o", "t", "e", " ", "w", "o", "r", "k">>,
     <<"r", "e", "m", "o", "t", "e", " ", "p", "o", "s", "i", "t", "i", "o", "n">>,
     <<"r", "e", "m", "o", "t", "e", " ", "o", "p", "p", "o", "r", "t", "u", "n", "i", "t", "y">>,
     <<"w", "o", "r", "k", " ", "f", "r", "o", "m", " ", "a", "n", "y", "w", "h", "e", "r", "e">>,
     <<"l", "o", "c", "a", "t", "i", "o", "n", " ", "i", "n", "d", "e", "p", "e", "n", "d", "e", "n", "t">>,
     <<"g", "l", "o", "b", "a", "l", " ", "r", "e", "m", "o", "t", "e">>}

\* BaseScraper.is_remote_job (base.py lines 75-92): any keyword in the joined
\* title, description and location; ' '.join raises TypeError on a None field.
BaseIsRemoteJob(job_data) ==
    LET title == DictGet(job_data.title, Str(<<>>))
        description == DictGet(job_data.description, Str(<<>>))
        location == DictGet(job_data.location, Str(<<>>))
        text_to_check == Lower(Joined(title.s, description.s, location.s))
    IN  IF title.tag = "none" \/ description.tag = "none" \/ location.tag = "none"
        THEN "TypeError"
        ELSE IF \E keyword \in BaseRemoteKeywords : Contains(text_to_check, keyword)
        THEN "True"
        ELSE "False"

\* The records the detector is tried on.
DetectorTitles == {<<"E", "n", "g", "i", "n", "e", "e", "r">>, <<"R", "e", "m", "o", "t", "e", " ", "E", "n", "g", "i", "n", "e", "e", "r">>, <<"W", "F", "H", " ", "E", "n", "g", "i", "n", "e", "e", "r">>}
DetectorDescriptions ==
    {Absent, None, Str(ItemText), Str(<<"W", "e", " ", "o", "f", "f", "e", "r", " ", "W", "F", "H">>), Str(<<"w", "f", "h", " ", "o", "r", " ", "t", "e", "l", "e", "c", "o", "m", "m", "u", "t", "e">>),
     Str(<<"w", "f", "h", ",", " ", "W", "F", "H">>), Str(<<"F", "u", "l", "l", "y", " ", "R", "e", "m", "o", "t", "e", " ", "t", "e", "a", "m">>)}
DetectorLocations ==
    {Absent, None, Str(<<"P", "u", "n", "e">>), Str(<<"W", "o", "r", "k", " ", "f", "r", "o", "m", " ", "h", "o", "m", "e">>),
     Str(<<"V", "i", "r", "t", "u", "a", "l">>), Str(<<"W", "o", "r", "l", "d", "w", "i", "d", "e">>)}
DetectorCompanies == {None, Str(Acme), Str(<<"G", "i", "t", "L", "a", "b", " ", "I", "n", "c">>)}

DetectorIdle ==
    /\ rd_job = <<>>
    /\ rd_verdict = "none"
    /\ rd_pc = "idle"
    /\ rd_flag = "none"

DetectorInit ==
    /\ rd_job \in [title : {Str(x) : x \in DetectorTitles},
                   description : DetectorDescriptions,
                   location : DetectorLocations,
                   company : DetectorCompanies]
    /\ rd_verdict = "none"
    /\ rd_pc = "called"
    /\ rd_flag = "none"

\* remote_detector.is_remote_job(job) returns.
IsRemoteJobReturn ==
    /\ rd_pc = "called"
    /\ rd_verdict' = is_remote_job(rd_job)
    /\ rd_pc' = "returned"
    /\ UNCHANGED <<rd_job, rd_flag>>
    /\ UNCHANGED notDetector

\* The adapter that built the record calls self.is_remote_job on its title,
\* description and location.
AdapterFlagReturn ==
    /\ rd_pc # "idle"
    /\ rd_flag = "none"
    /\ rd_flag' = BaseIsRemoteJob(rd_job)
    /\ UNCHANGED <<rd_job, rd_verdict, rd_pc>>
    /\ UNCHANGED notDetector

DetectorNext == IsRemoteJobReturn \/ AdapterFlagReturn

\* ------------------------------------------------------------ domain classifier
\* JobDomain (models.py lines 6-15).
JobDomain == {"DevOps", "Cloud/AWS", "Java", "Backend", "Frontend", "Data/ML", "QA", "PM", "Other"}

\* domain_keywords of backend/services/job_classifier.py (lines 7-46), in
\* dict order.
ServicesCatalogue == <<
    [domain |-> "DevOps",
     keywords |-> <<
          <<"d", "e", "v", "o", "p", "s">>,
          <<"i", "n", "f", "r", "a", "s", "t", "r", "u", "c", "t", "u", "r", "e">>,
          <<"d", "e", "p", "l", "o", "y", "m", "e", "n", "t">>,
          <<"c", "i", "/", "c", "d">>,
          <<"d", "o", "c", "k", "e", "r">>,
          <<"k", "u", "b", "e", "r", "n", "e", "t", "e", "s">>,
          <<"a", "n", "s", "i", "b", "l", "e">>,
          <<"t", "e", "r", "r", "a", "f", "o", "r", "m">>,
          <<"j", "e", "n", "k", "i", "n", "s">>,
          <<"p", "i", "p", "e", "l", "i", "n", "e">>,
          <<"a", "u", "t", "o", "m", "a", "t", "i", "o", "n">>,
          <<"s", "r", "e">>,
          <<"s", "i", "t", "e", " ", "r", "e", "l", "i", "a", "b", "i", "l", "i", "t", "y">>,
          <<"m", "o", "n", "i", "t", "o", "r", "i", "n", "g">>,
          <<"o", "b", "s", "e", "r", "v", "a", "b", "i", "l", "i", "t", "y">>>>],
    [domain |-> "Cloud/AWS",
     keywords |-> <<
          <<"a", "w", "s">>,
          <<"a", "z", "u", "r", "e">>,
          <<"g", "c", "p">>,
          <<"g", "o", "o", "g", "l", "e", " ", "c", "l", "o", "u", "d">>,
          <<"c", "l", "o", "u", "d">>,
          <<"s", "e", "r", "v", "e", "r", "l", "e", "s", "s">>,
          <<"l", "a", "m", "b", "d", "a">>,
          <<"e", "c", "2">>,
          <<"s", "3">>,
          <<"c", "l", "o", "u", "d", "f", "o", "r", "m", "a", "t", "i", "o", "n">>,
          <<"c", "l", "o", "u", "d", " ", "a", "r", "c", "h", "i", "t", "e", "c", "t">>,
          <<"c", "l", "o", "u", "d", " ", "e", "n", "g", "i", "n", "e", "e", "r">>>>],
    [domain |-> "Java",
     keywords |-> <<
          <<"j", "a", "v", "a">>,
          <<"s", "p", "r", "i", "n", "g">>,
          <<"h", "i", "b", "e", "r", "n", "a", "t", "e">>,
          <<"m", "a", "v", "e", "n">>,
          <<"g", "r", "a", "d", "l", "e">>,
          <<"j", "v", "m">>,
          <<"s", "c", "a", "l", "a">>,
          <<"k", "o", "t", "l", "i", "n">>,
          <<"s", "p", "r", "i", "n", "g", " ", "b", "o", "o", "t">>,
          <<"m", "i", "c", "r", "o", "s", "e", "r", "v", "i", "c", "e", "s", " ", "j", "a", "v", "a">>>>],
    [domain |-> "Backend",
     keywords |-> <<
          <<"b", "a", "c", "k", "e", "n", "d">>,
          <<"a", "p", "i">>,
          <<"s", "e", "r", "v", "e", "r">>,
          <<"d", "a", "t", "a", "b", "a", "s", "e">>,
          <<"s", "q", "l">>,
          <<"m", "i", "c", "r", "o", "s", "e", "r", "v", "i", "c", "e", "s">>,
          <<"r", "e", "s", "t">>,
          <<"g", "r", "a", "p", "h", "q", "l">>,
          <<"n", "o", "d", "e", ".", "j", "s">>,
          <<"p", "y", "t", "h", "o", "n">>,
          <<"g", "o">>,
          <<"r", "u", "s", "t">>,
          <<"c", "#">>,
          <<".", "n", "e", "t">>,
          <<"r", "u", "b", "y">>,
          <<"p", "h", "p">>,
          <<"b", "a", "c", "k", "e", "n", "d", " ", "d", "e", "v", "e", "l", "o", "p", "e", "r">>,
          <<"s", "e", "r", "v", "e", "r", "-", "s", "i", "d", "e">>>>],
    [domain |-> "Frontend",
     keywords |-> <<
          <<"f", "r", "o", "n", "t", "e", "n", "d">>,
          <<"r", "e", "a", "c", "t">>,
          <<"v", "u", "e">>,
          <<"a", "n", "g", "u", "l", "a", "r">>,
          <<"j", "a", "v", "a", "s", "c", "r", "i", "p", "t">>,
          <<"t", "y", "p", "e", "s", "c", "r", "i", "p", "t">>,
          <<"h", "t", "m", "l">>,
          <<"c", "s", "s">>,
          <<"u", "i">>,
          <<"u", "s", "e", "r", " ", "i", "n", "t", "e", "r", "f", "a", "c", "e">>,
          <<"w", "e", "b", " ", "d", "e", "v", "e", "l", "o", "p", "e", "r">>,
          <<"f", "r", "o", "n", "t", "e", "n", "d", " ", "d", "e", "v", "e", "l", "o", "p", "e", "r">>,
          <<"n", "e", "x", "t", ".", "j", "s">>,
          <<"n", "u", "x", "t">>,
          <<"s", "v", "e", "l", "t", "e">>,
          <<"e", "m", "b", "e", "r">>>>],
    [domain |-> "Data/ML",
     keywords |-> <<
          <<"d", "a", "t", "a", " ", "s", "c", "i", "e", "n", "t", "i", "s", "t">>,
          <<"m", "a", "c", "h", "i", "n", "e", " ", "l", "e", "a", "r", "n", "i", "n", "g">>,
          <<"m", "l">>,
          <<"a", "i">>,
          <<"a", "r", "t", "i", "f", "i", "c", "i", "a", "l", " ", "i", "n", "t", "e", "l", "l", "i", "g", "e", "n", "c", "e">>,
          <<"d", "a", "t", "a", " ", "e", "n", "g", "i", "n", "e", "e", "r">>,
          <<"d", "a", "t", "a", " ", "a", "n", "a", "l", "y", "s", "t">>,
          <<"p", "y", "t", "h", "o", "n", " ", "d", "a", "t", "a">>,
          <<"t", "e", "n", "s", "o", "r", "f", "l", "o", "w">>,
          <<"p", "y", "t", "o", "r", "c", "h">>,
          <<"p", "a", "n", "d", "a", "s">>,
          <<"n", "u", "m", "p", "y">>,
          <<"s", "q", "l", " ", "d", "a", "t", "a">>,
          <<"e", "t", "l">>,
          <<"d", "a", "t", "a", " ", "p", "i", "p", "e", "l", "i", "n", "e">>,
          <<"a", "n", "a", "l", "y", "t", "i", "c", "s">>,
          <<"b", "i", "g", " ", "d", "a", "t", "a">>,
          <<"s", "p", "a", "r", "k">>,
          <<"h", "a", "d", "o", "o", "p">>>>],
    [domain |-> "QA",
     keywords |-> <<
          <<"q", "a">>,
          <<"q", "u", "a", "l", "i", "t", "y", " ", "a", "s", "s", "u", "r", "a", "n", "c", "e">>,
          <<"t", "e", "s", "t">>,
          <<"t", "e", "s", "t", "i", "n", "g">>,
          <<"a", "u", "t", "o", "m", "a", "t", "i", "o", "n", " ", "t", "e", "s", "t", "i", "n", "g">>,
          <<"s", "e", "l", "e", "n", "i", "u", "m">>,
          <<"c", "y", "p", "r", "e", "s", "s">>,
          <<"j", "e", "s", "t">>,
          <<"q", "a", " ", "e", "n", "g", "i", "n", "e", "e", "r">>,
          <<"t", "e", "s", "t", " ", "e", "n", "g", "i", "n", "e", "e", "r">>,
          <<"q", "u", "a", "l", "i", "t", "y", " ", "e", "n", "g", "i", "n", "e", "e", "r">>,
          <<"s", "d", "e", "t">>,
          <<"t", "e", "s", "t", " ", "a", "u", "t", "o", "m", "a", "t", "i", "o", "n">>>>],
    [domain |-> "PM",
     keywords |-> <<
          <<"p", "r", "o", "d", "u", "c", "t", " ", "m", "a", "n", "a", "g", "e", "r">>,
          <<"p", "r", "o", "j", "e", "c", "t", " ", "m", "a", "n", "a", "g", "e", "r">>,
          <<"p", "r", "o", "g", "r", "a", "m", " ", "m", "a", "n", "a", "g", "e", "r">>,
          <<"s", "c", "r", "u", "m", " ", "m", "a", "s", "t", "e", "r">>,
          <<"p", "r", "o", "d", "u", "c", "t", " ", "o", "w", "n", "e", "r">>,
          <<"a", "g", "i", "l", "e">>,
          <<"p", "m">>,
          <<"p", "r", "o", "d", "u", "c", "t", " ", "m", "a", "n", "a", "g", "e", "m", "e", "n", "t">>,
          <<"p", "r", "o", "j", "e", "c", "t", " ", "m", "a", "n", "a", "g", "e", "m", "e", "n", "t">>>>] >>

\* domain_keywords of backend/job_classifier.py (lines 6-109), in dict order.
BackendCatalogue == <<
    [domain |-> "DevOps",
     keywords |-> <<
          <<"d", "e", "v", "o", "p", "s">>,
          <<"d", "e", "v", " ", "o", "p", "s">>,
          <<"i", "n", "f", "r", "a", "s", "t", "r", "u", "c", "t", "u", "r", "e">>,
          <<"d", "e", "p", "l", "o", "y", "m", "e", "n", "t">>,
          <<"c", "i", "/", "c", "d">>,
          <<"d", "o", "c", "k", "e", "r">>,
          <<"k", "u", "b", "e", "r", "n", "e", "t", "e", "s">>,
          <<"k", "8", "s">>,
          <<"a", "n", "s", "i", "b", "l", "e">>,
          <<"t", "e", "r", "r", "a", "f", "o", "r", "m">>,
          <<"j", "e", "n", "k", "i", "n", "s">>,
          <<"p", "i", "p", "e", "l", "i", "n", "e">>,
          <<"a", "u", "t", "o", "m", "a", "t", "i", "o", "n">>,
          <<"s", "r", "e">>,
          <<"s", "i", "t", "e", " ", "r", "e", "l", "i", "a", "b", "i", "l", "i", "t", "y">>,
          <<"m", "o", "n", "i", "t", "o", "r", "i", "n", "g">>,
          <<"o", "b", "s", "e", "r", "v", "a", "b", "i", "l", "i", "t", "y">>,
          <<"p", "r", "o", "m", "e", "t", "h", "e", "u", "s">>,
          <<"g", "r", "a", "f", "a", "n", "a">>,
          <<"h", "e", "l", "m">>,
          <<"m", "i", "c", "r", "o", "s", "e", "r", "v", "i", "c", "e", "s", " ", "i", "n", "f", "r", "a", "s", "t", "r", "u", "c", "t", "u", "r", "e">>>>],
    [domain |-> "Cloud/AWS",
     keywords |-> <<
          <<"a", "w", "s">>,
          <<"a", "m", "a", "z", "o", "n", " ", "w", "e", "b", " ", "s", "e", "r", "v", "i", "c", "e", "s">>,
          <<"e", "c", "2">>,
          <<"s", "3">>,
          <<"l", "a", "m", "b", "d", "a">>,
          <<"c", "l", "o", "u", "d", "f", "o", "r", "m", "a", "t", "i", "o", "n">>,
          <<"c", "l", "o", "u", "d", " ", "a", "r", "c", "h", "i", "t", "e", "c", "t">>,
          <<"c", "l", "o", "u", "d", " ", "e", "n", "g", "i", "n", "e", "e", "r">>,
          <<"a", "w", "s", " ", "d", "e", "v", "o", "p", "s">>,
          <<"a", "w", "s", " ", "d", "e", "v", "e", "l", "o", "p", "e", "r">>,
          <<"s", "e", "r", "v", "e", "r", "l", "e", "s", "s">>,
          <<"c", "l", "o", "u", "d", "w", "a", "t", "c", "h">>>>],
    [domain |-> "Azure",
     keywords |-> <<
          <<"a", "z", "u", "r", "e">>,
          <<"m", "i", "c", "r", "o", "s", "o", "f", "t", " ", "a", "z", "u", "r", "e">>,
          <<"a", "z", "u", "r", "e", " ", "d", "e", "v", "o", "p", "s">>,
          <<"a", "z", "u", "r", "e", " ", "a", "r", "c", "h", "i", "t", "e", "c", "t">>,
          <<"a", "z", "u", "r", "e", " ", "d", "e", "v", "e", "l", "o", "p", "e", "r">>,
          <<"a", "z", "u", "r", "e", " ", "c", "l", "o", "u", "d">>,
          <<"o", "f", "f", "i", "c", "e", " ", "3", "6", "5">>,
          <<"p", "o", "w", "e", "r", " ", "p", "l", "a", "t", "f", "o", "r", "m">>,
          <<"a", "z", "u", "r", "e", " ", "f", "u", "n", "c", "t", "i", "o", "n", "s">>>>],
    [domain |-> "GCP",
     keywords |-> <<
          <<"g", "c", "p">>,
          <<"g", "o", "o", "g", "l", "e", " ", "c", "l", "o", "u", "d">>,
          <<"g", "o", "o", "g", "l", "e", " ", "c", "l", "o", "u", "d", " ", "p", "l", "a", "t", "f", "o", "r", "m">>,
          <<"g", "k", "e">>,
          <<"c", "l", "o", "u", "d", " ", "r", "u", "n">>,
          <<"b", "i", "g", "q", "u", "e", "r", "y">>,
          <<"g", "c", "p", " ", "e", "n", "g", "i", "n", "e", "e", "r">>,
          <<"g", "c", "p", " ", "a", "r", "c", "h", "i", "t", "e", "c", "t">>,
          <<"f", "i", "r", "e", "b", "a", "s", "e">>>>],
    [domain |-> "Java",
     keywords |-> <<
          <<"j", "a", "v", "a">>,
          <<"s", "p", "r", "i", "n", "g">>,
          <<"s", "p", "r", "i", "n", "g", " ", "b", "o", "o", "t">>,
          <<"h", "i", "b", "e", "r", "n", "a", "t", "e">>,
          <<"m", "a", "v", "e", "n">>,
          <<"g", "r", "a", "d", "l", "e">>,
          <<"j", "v", "m">>,
          <<"s", "c", "a", "l", "a">>,
          <<"k", "o", "t", "l", "i", "n">>,
          <<"m", "i", "c", "r", "o", "s", "e", "r", "v", "i", "c", "e", "s", " ", "j", "a", "v", "a">>,
          <<"j", "a", "v", "a", " ", "d", "e", "v", "e", "l", "o", "p", "e", "r">>,
          <<"j", "a", "v", "a", " ", "e", "n", "g", "i", "n", "e", "e", "r">>>>],
    [domain |-> "Python",
     keywords |-> <<
          <<"p", "y", "t", "h", "o", "n">>,
          <<"d", "j", "a", "n", "g", "o">>,
          <<"f", "l", "a", "s", "k">>,
          <<"f", "a", "s", "t", "a", "p", "i">>,
          <<"p", "a", "n", "d", "a", "s">>,
          <<"n", "u", "m", "p", "y">>,
          <<"p", "y", "t", "h", "o", "n", " ", "d", "e", "v", "e", "l", "o", "p", "e", "r">>,
          <<"p", "y", "t", "h", "o", "n", " ", "e", "n", "g", "i", "n", "e", "e", "r">>,
          <<"p", "y", "t", "h", "o", "n", " ", "b", "a", "c", "k", "e", "n", "d">>,
          <<"p", "y", "t", "e", "s", "t">>>>],
    [domain |-> "React",
     keywords |-> <<
          <<"r", "e", "a", "c", "t">>,
          <<"r", "e", "a", "c", "t", "j", "s">>,
          <<"r", "e", "a", "c", "t", ".", "j", "s">>,
          <<"n", "e", "x", "t", ".", "j", "s">>,
          <<"n", "e", "x", "t", "j", "s">>,
          <<"r", "e", "d", "u", "x">>,
          <<"r", "e", "a", "c", "t", " ", "n", "a", "t", "i", "v", "e">>,
          <<"r", "e", "a", "c", "t", " ", "d", "e", "v", "e", "l", "o", "p", "e", "r">>,
          <<"r", "e", "a", "c", "t", " ", "e", "n", "g", "i", "n", "e", "e", "r">>,
          <<"f", "r", "o", "n", "t", "e", "n", "d", " ", "r", "e", "a", "c", "t">>>>],
    [domain |-> "Full Stack",
     keywords |-> <<
          <<"f", "u", "l", "l", " ", "s", "t", "a", "c", "k">>,
          <<"f", "u", "l", "l", "s", "t", "a", "c", "k">>,
          <<"f", "u", "l", "l", "-", "s", "t", "a", "c", "k">>,
          <<"m", "e", "r", "n">>,
          <<"m", "e", "a", "n">>,
          <<"l", "a", "m", "p">>,
          <<"j", "a", "v", "a", "s", "c", "r", "i", "p", "t", " ", "d", "e", "v", "e", "l", "o", "p", "e", "r">>,
          <<"w", "e", "b", " ", "d", "e", "v", "e", "l", "o", "p", "e", "r">>,
          <<"f", "r", "o", "n", "t", "e", "n", "d", " ", "b", "a", "c", "k", "e", "n", "d">>,
          <<"e", "n", "d", " ", "t", "o", " ", "e", "n", "d", " ", "d", "e", "v", "e", "l", "o", "p", "e", "r">>>>],
    [domain |-> "Android",
     keywords |-> <<
          <<"a", "n", "d", "r", "o", "i", "d">>,
          <<"a", "n", "d", "r", "o", "i", "d", " ", "d", "e", "v", "e", "l", "o", "p", "e", "r">>,
          <<"k", "o", "t", "l", "i", "n", " ", "a", "n", "d", "r", "o", "i", "d">>,
          <<"j", "a", "v", "a", " ", "a", "n", "d", "r", "o", "i", "d">>,
          <<"a", "n", "d", "r", "o", "i", "d", " ", "e", "n", "g", "i", "n", "e", "e", "r">>,
          <<"m", "o", "b", "i", "l", "e", " ", "a", "n", "d", "r", "o", "i", "d">>,
          <<"a", "n", "d", "r", "o", "i", "d", " ", "a", "p", "p">>,
          <<"f", "l", "u", "t", "t", "e", "r">>,
          <<"r", "e", "a", "c", "t", " ", "n", "a", "t", "i", "v", "e">>>>],
    [domain |-> "iOS",
     keywords |-> <<
          <<"i", "o", "s">>,
          <<"i", "o", "s", " ", "d", "e", "v", "e", "l", "o", "p", "e", "r">>,
          <<"s", "w", "i", "f", "t">>,
          <<"o", "b", "j", "e", "c", "t", "i", "v", "e", "-", "c">>,
          <<"i", "p", "h", "o", "n", "e">>,
          <<"i", "p", "a", "d">>,
          <<"i", "o", "s", " ", "e", "n", "g", "i", "n", "e", "e", "r">>,
          <<"m", "o", "b", "i", "l", "e", " ", "i", "o", "s">>,
          <<"i", "o", "s", " ", "a", "p", "p", " ", "d", "e", "v", "e", "l", "o", "p", "m", "e", "n", "t">>>>],
    [domain |-> "Backend",
     keywords |-> <<
          <<"b", "a", "c", "k", "e", "n", "d">>,
          <<"b", "a", "c", "k", "-", "e", "n", "d">>,
          <<"a", "p", "i">>,
          <<"s", "e", "r", "v", "e", "r">>,
          <<"d", "a", "t", "a", "b", "a", "s", "e">>,
          <<"s", "q", "l">>,
          <<"m", "i", "c", "r", "o", "s", "e", "r", "v", "i", "c", "e", "s">>,
          <<"r", "e", "s", "t">>,
          <<"g", "r", "a", "p", "h", "q", "l">>,
          <<"n", "o", "d", "e", ".", "j", "s">>,
          <<"n", "o", "d", "e", "j", "s">>,
          <<"g", "o">>,
          <<"r", "u", "s", "t">>,
          <<"c", "#">>,
          <<".", "n", "e", "t">>,
          <<"r", "u", "b", "y">>,
          <<"p", "h", "p">>,
          <<"b", "a", "c", "k", "e", "n", "d", " ", "d", "e", "v", "e", "l", "o", "p", "e", "r">>,
          <<"s", "e", "r", "v", "e", "r", "-", "s", "i", "d", "e">>,
          <<"b", "a", "c", "k", "e", "n", "d", " ", "e", "n", "g", "i", "n", "e", "e", "r">>>>],
    [domain |-> "Frontend",
     keywords |-> <<
          <<"f", "r", "o", "n", "t", "e", "n", "d">>,
          <<"f", "r", "o", "n", "t", "-", "e", "n", "d">>,
          <<"v", "u", "e">>,
          <<"v", "u", "e", "j", "s">>,
          <<"a", "n", "g", "u", "l", "a", "r">>,
          <<"a", "n", "g", "u", "l", "a", "r", "j", "s">>,
          <<"j", "a", "v", "a", "s", "c", "r", "i", "p", "t">>,
          <<"t", "y", "p", "e", "s", "c", "r", "i", "p", "t">>,
          <<"h", "t", "m", "l">>,
          <<"c", "s", "s">>,
          <<"s", "c", "s", "s">>,
          <<"s", "a", "s", "s">>,
          <<"u", "i">>,
          <<"u", "s", "e", "r", " ", "i", "n", "t", "e", "r", "f", "a", "c", "e">>,
          <<"w", "e", "b", " ", "d", "e", "v", "e", "l", "o", "p", "e", "r">>,
          <<"f", "r", "o", "n", "t", "e", "n", "d", " ", "d", "e", "v", "e", "l", "o", "p", "e", "r">>,
          <<"s", "v", "e", "l", "t", "e">>,
          <<"e", "m", "b", "e", "r">>,
          <<"w", "e", "b", "p", "a", "c", "k">>,
          <<"v", "i", "t", "e">>>>],
    [domain |-> "Data/ML",
     keywords |-> <<
          <<"d", "a", "t", "a", " ", "s", "c", "i", "e", "n", "t", "i", "s", "t">>,
          <<"d", "a", "t", "a", " ", "s", "c", "i", "e", "n", "c", "e">>,
          <<"m", "a", "c", "h", "i", "n", "e", " ", "l", "e", "a", "r", "n", "i", "n", "g">>,
          <<"m", "l">>,
          <<"a", "i">>,
          <<"a", "r", "t", "i", "f", "i", "c", "i", "a", "l", " ", "i", "n", "t", "e", "l", "l", "i", "g", "e", "n", "c", "e">>,
          <<"d", "a", "t", "a", " ", "e", "n", "g", "i", "n", "e", "e", "r">>,
          <<"d", "a", "t", "a", " ", "a", "n", "a", "l", "y", "s", "t">>,
          <<"p", "y", "t", "h", "o", "n", " ", "d", "a", "t", "a">>,
          <<"t", "e", "n", "s", "o", "r", "f", "l", "o", "w">>,
          <<"p", "y", "t", "o", "r", "c", "h">>,
          <<"p", "a", "n", "d", "a", "s">>,
          <<"n", "u", "m", "p", "y">>,
          <<"s", "q", "l", " ", "d", "a", "t", "a">>,
          <<"e", "t", "l">>,
          <<"d", "a", "t", "a", " ", "p", "i", "p", "e", "l", "i", "n", "e">>,
          <<"a", "n", "a", "l", "y", "t", "i", "c", "s">>,
          <<"b", "i", "g", " ", "d", "a", "t", "a">>,
          <<"s", "p", "a", "r", "k">>,
          <<"h", "a", "d", "o", "o", "p">>,
          <<"k", "a", "f", "k", "a">>,
          <<"a", "i", "r", "f", "l", "o", "w">>,
          <<"s", "n", "o", "w", "f", "l", "a", "k", "e">>>>],
    [domain |-> "PowerBI",
     keywords |-> <<
          <<"p", "o", "w", "e", "r", " ", "b", "i">>,
          <<"p", "o", "w", "e", "r", "b", "i">>,
          <<"p", "o", "w", "e", "r", " ", "p", "l", "a", "t", "f", "o", "r", "m">>,
          <<"d", "a", "x">>,
          <<"p", "o", "w", "e", "r", " ", "q", "u", "e", "r", "y">>,
          <<"m", "i", "c", "r", "o", "s", "o", "f", "t", " ", "b", "i">>,
          <<"b", "u", "s", "i", "n", "e", "s", "s", " ", "i", "n", "t", "e", "l", "l", "i", "g", "e", "n", "c", "e">>,
          <<"d", "a", "t", "a", " ", "v", "i", "s", "u", "a", "l", "i", "z", "a", "t", "i", "o", "n">>,
          <<"r", "e", "p", "o", "r", "t", "i", "n", "g", " ", "a", "n", "a", "l", "y", "s", "t">>>>],
    [domain |-> "Tableau",
     keywords |-> <<
          <<"t", "a", "b", "l", "e", "a", "u">>,
          <<"t", "a", "b", "l", "e", "a", "u", " ", "d", "e", "v", "e", "l", "o", "p", "e", "r">>,
          <<"d", "a", "t", "a", " ", "v", "i", "s", "u", "a", "l", "i", "z", "a", "t", "i", "o", "n">>,
          <<"d", "a", "s", "h", "b", "o", "a", "r", "d">>,
          <<"a", "n", "a", "l", "y", "t", "i", "c", "s">>,
          <<"b", "u", "s", "i", "n", "e", "s", "s", " ", "i", "n", "t", "e", "l", "l", "i", "g", "e", "n", "c", "e">>,
          <<"t", "a", "b", "l", "e", "a", "u", " ", "a", "n", "a", "l", "y", "s", "t">>>>],
    [domain |-> "QA",
     keywords |-> <<
          <<"q", "a">>,
          <<"q", "u", "a", "l", "i", "t", "y", " ", "a", "s", "s", "u", "r", "a", "n", "c", "e">>,
          <<"t", "e", "s", "t">>,
          <<"t", "e", "s", "t", "i", "n", "g">>,
          <<"a", "u", "t", "o", "m", "a", "t", "i", "o", "n", " ", "t", "e", "s", "t", "i", "n", "g">>,
          <<"s", "e", "l", "e", "n", "i", "u", "m">>,
          <<"c", "y", "p", "r", "e", "s", "s">>,
          <<"j", "e", "s", "t">>,
          <<"q", "a", " ", "e", "n", "g", "i", "n", "e", "e", "r">>,
          <<"t", "e", "s", "t", " ", "e", "n", "g", "i", "n", "e", "e", "r">>,
          <<"q", "u", "a", "l", "i", "t", "y", " ", "e", "n", "g", "i", "n", "e", "e", "r">>,
          <<"s", "d", "e", "t">>,
          <<"t", "e", "s", "t", " ", "a", "u", "t", "o", "m", "a", "t", "i", "o", "n">>,
          <<"m", "a", "n", "u", "a", "l", " ", "t", "e", "s", "t", "i", "n", "g">>>>],
    [domain |-> "PM",
     keywords |-> <<
          <<"p", "r", "o", "d", "u", "c", "t", " ", "m", "a", "n", "a", "g", "e", "r">>,
          <<"p", "r", "o", "j", "e", "c", "t", " ", "m", "a", "n", "a", "g", "e", "r">>,
          <<"p", "r", "o", "g", "r", "a", "m", " ", "m", "a", "n", "a", "g", "e", "r">>,
          <<"s", "c", "r", "u", "m", " ", "m", "a", "s", "t", "e", "r">>,
          <<"p", "r", "o", "d", "u", "c", "t", " ", "o", "w", "n", "e", "r">>,
          <<"a", "g", "i", "l", "e">>,
          <<"p", "m">>,
          <<"p", "r", "o", "d", "u", "c", "t", " ", "m", "a", "n", "a", "g", "e", "m", "e", "n", "t">>,
          <<"p", "r", "o", "j", "e", "c", "t", " ", "m", "a", "n", "a", "g", "e", "m", "e", "n", "t">>,
          <<"t", "e", "c", "h", "n", "i", "c", "a", "l", " ", "p", "r", "o", "g", "r", "a", "m", " ", "m", "a", "n", "a", "g", "e", "r">>,
          <<"e", "n", "g", "i", "n", "e", "e", "r", "i", "n", "g", " ", "m", "a", "n", "a", "g", "e", "r">>>>],
    [domain |-> "SAP",
     keywords |-> <<
          <<"s", "a", "p">>,
          <<"s", "a", "p", " ", "c", "o", "n", "s", "u", "l", "t", "a", "n", "t">>,
          <<"s", "a", "p", " ", "d", "e", "v", "e", "l", "o", "p", "e", "r">>,
          <<"s", "a", "p", " ", "a", "n", "a", "l", "y", "s", "t">>,
          <<"s", "a", "p", " ", "i", "m", "p", "l", "e", "m", "e", "n", "t", "a", "t", "i", "o", "n">>,
          <<"s", "a", "p", " ", "f", "i", "c", "o">>,
          <<"s", "a", "p", " ", "m", "m">>,
          <<"s", "a", "p", " ", "s", "d">>,
          <<"s", "a", "p", " ", "h", "a", "n", "a">>,
          <<"s", "a", "p", " ", "s", "/", "4", "h", "a", "n", "a">>>>],
    [domain |-> "Security",
     keywords |-> <<
          <<"s", "e", "c", "u", "r", "i", "t", "y">>,
          <<"c", "y", "b", "e", "r", "s", "e", "c", "u", "r", "i", "t", "y">>,
          <<"i", "n", "f", "o", "r", "m", "a", "t", "i", "o", "n", " ", "s", "e", "c", "u", "r", "i", "t", "y">>,
          <<"s", "e", "c", "u", "r", "i", "t", "y", " ", "e", "n", "g", "i", "n", "e", "e", "r">>,
          <<"s", "e", "c", "u", "r", "i", "t", "y", " ", "a", "n", "a", "l", "y", "s", "t">>,
          <<"p", "e", "n", "e", "t", "r", "a", "t", "i", "o", "n", " ", "t", "e", "s", "t", "i", "n", "g">>,
          <<"s", "e", "c", "u", "r", "i", "t", "y", " ", "a", "r", "c", "h", "i", "t", "e", "c", "t">>,
          <<"d", "e", "v", "s", "e", "c", "o", "p", "s">>>>] >>

Catalogue(c) == IF c = "services" THEN ServicesCatalogue ELSE BackendCatalogue

\* Title matches count 3 in backend/services (line 64), 5 in backend (line 129).
ServicesTitleWeight == 3
BackendTitleWeight == 5

TitleWeight(c) == IF c = "services" THEN ServicesTitleWeight ELSE BackendTitleWeight

\* Whether the pattern matches the text at position i. backend/services hands
\* the keyword to re.findall as it is, so a '.' in it stands for any character
\* but a newline; backend escapes the keyword first.
MatchesAt(text, i, pattern, escaped) ==
    /\ i + Len(pattern) - 1 <= Len(text)
    /\ \A j \in 1..Len(pattern) :
          \/ text[i + j - 1] = pattern[j]
          \/ ~escaped /\ pattern[j] = "." /\ text[i + j - 1] # "\n"

RECURSIVE CountFrom(_, _, _, _)
\* len(re.findall(pattern, text)): the matches found from the left, each
\* search starting where the last match ended.
CountFrom(text, i, pattern, escaped) ==
    IF i + Len(pattern) - 1 > Len(text) THEN 0
    ELSE IF MatchesAt(text, i, pattern, escaped)
         THEN 1 + CountFrom(text, i + Len(pattern), pattern, escaped)
         ELSE CountFrom(text, i + 1, pattern, escaped)

RECURSIVE KeywordScore(_, _, _, _, _, _)
\* The inner loop of classify_job: title_matches * weight + desc_matches, summed
\* over the keywords from the k-th on.
KeywordScore(keywords, k, title, description, weight, escaped) ==
    IF k > Len(keywords) THEN 0
    ELSE CountFrom(title, 1, Lower(keywords[k]), escaped) * weight
         + CountFrom(description, 1, Lower(keywords[k]), escaped)
         + KeywordScore(keywords, k + 1, title, description, weight, escaped)

\* The score of the d-th domain of classifier c for a lowercased title and
\* description.
DomainScore(c, d, title, description) ==
    KeywordScore(Catalogue(c)[d].keywords, 1, title, description, TitleWeight(c),
                 c = "backend")

\* A choice of the last of the best domains.
LastBest(scores) ==
    CHOOSE d \in DOMAIN scores :
        /\ scores[d] > 0
        /\ \A e \in DOMAIN scores : scores[e] <= scores[d]
        /\ \A e \in DOMAIN scores : e > d => scores[e] < scores[d]

\* max(domain_scores.items(), key=lambda x: x[1]): the first of the entries
\* with the greatest score, the entries standing in catalogue order.
FirstBest(scores) ==
    CHOOSE d \in DOMAIN scores :
        /\ scores[d] > 0
        /\ \A e \in DOMAIN scores : scores[e] <= scores[d]
        /\ \A e \in DOMAIN scores : e < d => scores[e] < scores[d]

Returned(domain) == [kind |-> "returned", domain |-> domain]
Raised == [kind |-> "raised", domain |-> ""]
NoResult == [kind |-> "none", domain |-> ""]

\* JobClassifier.classify_job. backend/services (lines 48-74) takes
\* job_data.get(field, '') as it is, so a None title or description raises;
\* backend (lines 111-139) wraps it in str().
classify_job(c, job_data) ==
    LET t == DictGet(job_data.title, Str(<<>>))
        d == DictGet(job_data.description, Str(<<>>))
        title == Lower(PyStr(t))
        description == Lower(PyStr(d))
        scores == [k \in 1..Len(Catalogue(c)) |-> DomainScore(c, k, title, description)]
    IN  IF c = "services" /\ (t.tag = "none" \/ d.tag = "none") THEN Raised
        ELSE IF \E k \in DOMAIN scores : scores[k] > 0
             THEN Returned(Catalogue(c)[FirstBest(scores)].domain)
             ELSE Returned("Other")

\* The records the classifiers are tried on.
ClassifierTitles ==
    {None, Str(<<>>), Str(<<"J", "a", "v", "a", " ", "E", "n", "g", "i", "n", "e", "e", "r">>), Str(<<"P", "y", "t", "h", "o", "n", " ", "D", "e", "v", "e", "l", "o", "p", "e", "r">>),
     Str(<<"I", "n", "t", "e", "r", "n", "e", "t", " ", "R", "e", "s", "e", "a", "r", "c", "h", "e", "r">>), Str(<<"G", "a", "r", "d", "e", "n", "e", "r">>)}
ClassifierDescriptions ==
    {Absent, None, Str(<<"G", "a", "r", "d", "e", "n", "i", "n", "g">>), Str(<<"a", "p", "i", " ", "a", "p", "i", " ", "a", "p", "i", " ", "a", "p", "i">>),
     Str(<<"W", "e", " ", "u", "s", "e", " ", "D", "o", "c", "k", "e", "r", " ", "o", "n", " ", "A", "W", "S">>), Str(<<"j", "a", "v", "a", " ", "j", "a", "v", "a", " ", "j", "a", "v", "a">>),
     Str(<<"H", "a", "d", "o", "o", "p", " ", "a", "n", "d", " ", "J", "a", "v", "a">>)}

ClassifierIdle ==
    /\ cl_classifier = "none"
    /\ cl_job = <<>>
    /\ cl_result = NoResult
    /\ cl_pc = "idle"

ClassifierInit ==
    /\ cl_classifier \in {"services", "backend"}
    /\ cl_job \in [title : ClassifierTitles, description : ClassifierDescriptions]
    /\ cl_result = NoResult
    /\ cl_pc = "called"

\* classifier.classify_job(job) returns or raises.
ClassifyJobReturn ==
    /\ cl_pc = "called"
    /\ cl_result' = classify_job(cl_classifier, cl_job)
    /\ cl_pc' = "returned"
    /\ UNCHANGED <<cl_classifier, cl_job>>
    /\ UNCHANGED notClassifier

ClassifierNext == ClassifyJobReturn

\* ------------------------------------------------------------ salary extraction
Digits == {"0", "1", "2", "3", "4", "5", "6", "7", "8", "9"}

DigitValue ==
    [c \in Digits |->
        CASE c = "0" -> 0 [] c = "1" -> 1 [] c = "2" -> 2 [] c = "3" -> 3 [] c = "4" -> 4
          [] c = "5" -> 5 [] c = "6" -> 6 [] c = "7" -> 7 [] c = "8" -> 8 [] c = "9" -> 9]

\* int(group) on a group that \d+ or \d{3} matched.
RECURSIVE ToInt(_)
ToInt(ds) ==
    IF ds = <<>> THEN 0
    ELSE ToInt(SubSeq(ds, 1, Len(ds) - 1)) * 10 + DigitValue[ds[Len(ds)]]

\* How many digits stand at position i and after it.
DigitRun(s, i) ==
    CHOOSE n \in 0..(Len(s) - i + 1) :
        /\ \A j \in i..(i + n - 1) : s[j] \in Digits
        /\ i + n > Len(s) \/ s[i + n] \notin Digits

\* \s* at position i: the position after the whitespace.
Spaces(s, i) ==
    CHOOSE p \in i..(Len(s) + 1) :
        /\ \A j \in i..(p - 1) : IsSpace(s[j])
        /\ p > Len(s) \/ ~IsSpace(s[p])

\* c? at position i, under re.IGNORECASE: the position after it.
Optional(s, i, c) == IF i <= Len(s) /\ LowerChar(s[i]) = c THEN i + 1 ELSE i

\* A literal at position i, under re.IGNORECASE: the position after it, 0 when
\* the text differs.
Literal(s, i, lit) ==
    IF i + Len(lit) - 1 <= Len(s) /\ Lower(SubSeq(s, i, i + Len(lit) - 1)) = lit
    THEN i + Len(lit)
    ELSE 0

NoMatch == [matched |-> FALSE, groups |-> <<>>]

Match(gs) == [matched |-> TRUE, groups |-> gs]

\* (\d+)k?\s*-\s*\$?(\d+)k? at position i. No element can take a character the
\* one before it gave back, so each takes all it can.
RangeAt(s, i) ==
    LET n1 == DigitRun(s, i)
        dash == Literal(s, Spaces(s, Optional(s, i + n1, "k")), <<"-">>)
        start2 == Optional(s, Spaces(s, dash), "$")
        n2 == DigitRun(s, start2)
    IN  IF n1 = 0 THEN NoMatch
        ELSE IF dash = 0 THEN NoMatch
        ELSE IF n2 = 0 THEN NoMatch
        ELSE Match(<<SubSeq(s, i, i + n1 - 1), SubSeq(s, start2, start2 + n2 - 1)>>)

\* \$(\d+)k?\s*-\s*\$?(\d+)k?
DollarRangeAt(s, i) ==
    IF Literal(s, i, <<"$">>) = 0 THEN NoMatch ELSE RangeAt(s, i + 1)

\* (\d+)k\s*-\s*(\d+)k
KRangeAt(s, i) ==
    LET n1 == DigitRun(s, i)
        k1 == Literal(s, i + n1, <<"k">>)
        dash == Literal(s, Spaces(s, k1), <<"-">>)
        start2 == Spaces(s, dash)
        n2 == DigitRun(s, start2)
    IN  IF n1 = 0 THEN NoMatch
        ELSE IF k1 = 0 THEN NoMatch
        ELSE IF dash = 0 THEN NoMatch
        ELSE IF n2 = 0 THEN NoMatch
        ELSE IF Literal(s, start2 + n2, <<"k">>) = 0 THEN NoMatch
        ELSE Match(<<SubSeq(s, i, i + n1 - 1), SubSeq(s, start2, start2 + n2 - 1)>>)

\* (\d+),?(\d{3}) at position i: every way the two groups can divide the
\* digits, as the length of the first group and the position after the start2.
Thousands(s, i) ==
    LET run == DigitRun(s, i)
        comma == {[first |-> run, after |-> i + run + 4] : x \in
                    {y \in {1} : /\ run > 0
                                 /\ Literal(s, i + run, <<",">>) # 0
                                 /\ DigitRun(s, i + run + 1) >= 3}}
        plain == {[first |-> n, after |-> i + n + 3] : n \in 1..(run - 3)}
    IN  comma \cup plain

\* \$(\d+),?(\d{3})\s*-\s*\$?(\d+),?(\d{3}) at position i. The first group is
\* greedy: of the divisions after which the rest matches, the longest.
ThousandsRangeAt(s, i) ==
    LET rest(d) ==
            LET dash == Literal(s, Spaces(s, d.after), <<"-">>)
            IN  dash # 0 /\ Thousands(s, Optional(s, Spaces(s, dash), "$")) # {}
        fits == {d \in Thousands(s, i + 1) : rest(d)}
        best == CHOOSE x \in fits : \A y \in fits : y.first <= x.first
    IN  IF Literal(s, i, <<"$">>) = 0 THEN NoMatch
        ELSE IF fits = {} THEN NoMatch
        ELSE Match(<<SubSeq(s, i + 1, i + best.first),
                     SubSeq(s, best.after - 3, best.after - 1)>>)

\* label\s*\$?(\d+)k?\s*-\s*\$?(\d+)k?
LabelledRangeAt(s, i, label) ==
    LET colon == Literal(s, i, label)
    IN  IF colon = 0 THEN NoMatch ELSE RangeAt(s, Optional(s, Spaces(s, colon), "$"))

SalaryLabel == <<"s", "a", "l", "a", "r", "y", ":">>

CompensationLabel == <<"c", "o", "m", "p", "e", "n", "s", "a", "t", "i", "o", "n", ":">>

\* salary_patterns, in order.
PatternAt(k, s, i) ==
    CASE k = 1 -> DollarRangeAt(s, i)
      [] k = 2 -> KRangeAt(s, i)
      [] k = 3 -> ThousandsRangeAt(s, i)
      [] k = 4 -> LabelledRangeAt(s, i, SalaryLabel)
      [] k = 5 -> LabelledRangeAt(s, i, CompensationLabel)

\* re.search(pattern, text, re.IGNORECASE): the leftmost match.
Search(k, text) ==
    LET hits == {i \in 1..Len(text) : PatternAt(k, text, i).matched}
    IN  IF hits = {} THEN NoMatch
        ELSE PatternAt(k, text, CHOOSE i \in hits : \A j \in hits : i <= j)

NoSalary == [found |-> FALSE, min_sal |-> 0, max_sal |-> 0]

\* BaseScraper.extract_salary: (None, None), or the first two groups of the
\* first pattern that matches, in thousands when the text has a k anywhere.
extract_salary(text) ==
    LET matching == {k \in 1..5 : Search(k, text).matched}
        groups == Search(CHOOSE k \in matching : \A j \in matching : k <= j, text).groups
        unit == IF Contains(Lower(text), <<"k">>) THEN 1000 ELSE 1
    IN  IF matching = {} THEN NoSalary
        ELSE [found |-> TRUE,
              min_sal |-> ToInt(groups[1]) * unit,
              max_sal |-> ToInt(groups[2]) * unit]

\* The description texts of the model: a lead, two amounts and what stands
\* between and after them.
Leads == {<<"P", "a", "y", " ">>,
          <<"P", "a", "y", " ", "$">>,
          <<"S", "a", "l", "a", "r", "y", ":", " ">>,
          <<"C", "o", "m", "p", "e", "n", "s", "a", "t", "i", "o", "n", ":", " ", "$">>}

Amounts == {<<"9", "0">>, <<"1", "5", "0">>, <<"1", "0", "0">>, <<"1", "2", "0", ",", "0", "0", "0">>, <<"1", "5", "0", ",", "0", "0", "0">>, <<"9", "5", "0", "0", "0">>}

Units == {<<>>, <<"k">>, <<"K">>}

Separators == {<<"-">>, <<" ", "-", " ">>, <<" ", "-", " ", "$">>, <<" ", "t", "o", " ">>}

SalaryTexts ==
    {lead \o a \o u \o sep \o b \o v :
        lead \in Leads, a \in Amounts, u \in Units, sep \in Separators,
        b \in Amounts, v \in Units}

SalaryIdle ==
    /\ sal_text = <<>>
    /\ sal_result = NoSalary
    /\ sal_pc = "idle"

SalaryInit ==
    /\ sal_text \in SalaryTexts
    /\ sal_result = NoSalary
    /\ sal_pc = "called"

\* self.extract_salary(description) returns.
ExtractSalaryReturn ==
    /\ sal_pc = "called"
    /\ sal_result' = extract_salary(sal_text)
    /\ sal_pc' = "returned"
    /\ UNCHANGED sal_text
    /\ UNCHANGED notSalary

SalaryNext == ExtractSalaryReturn

\* ------------------------------------------------------------ recency filter
\* A naive datetime: the day as date.toordinal() counts it, the second of the
\* day, the microsecond.
Datetime(day, sec, us) == [day |-> day, sec |-> sec, us |-> us]

IsLeap(y) == (y % 4 = 0 /\ y % 100 # 0) \/ y % 400 = 0

DaysInMonth(y, mo) ==
    IF mo \in {4, 6, 9, 11} THEN 30
    ELSE IF mo = 2 THEN (IF IsLeap(y) THEN 29 ELSE 28)
    ELSE 31

RECURSIVE DaysBeforeMonth(_, _)
DaysBeforeMonth(y, mo) ==
    IF mo = 1 THEN 0 ELSE DaysBeforeMonth(y, mo - 1) + DaysInMonth(y, mo - 1)

\* date(y, mo, d).toordinal()
Ordinal(y, mo, d) ==
    (y - 1) * 365 + ((y - 1) \div 4) - ((y - 1) \div 100) + ((y - 1) \div 400)
        + DaysBeforeMonth(y, mo) + d

\* a >= b on datetimes
AtOrAfter(a, b) ==
    \/ a.day > b.day
    \/ a.day = b.day /\ a.sec > b.sec
    \/ a.day = b.day /\ a.sec = b.sec /\ a.us >= b.us

\* dt - timedelta(days=n)
MinusDays(dt, n) == [dt EXCEPT !.day = @ - n]

\* JobDateFilter.__init__'s default days_back.
DefaultDaysBack == 15

\* date_formats of _parse_date (lines 48-57), each a sequence of directives
\* and literal characters.
DateFormats ==
    <<<<"%Y", "-", "%m", "-", "%d">>,
      <<"%Y", "-", "%m", "-", "%d", "T", "%H", ":", "%M", ":", "%S">>,
      <<"%Y", "-", "%m", "-", "%d", "T", "%H", ":", "%M", ":", "%S", "Z">>,
      <<"%Y", "-", "%m", "-", "%d", " ", "%H", ":", "%M", ":", "%S">>,
      <<"%d", "/", "%m", "/", "%Y">>,
      <<"%m", "/", "%d", "/", "%Y">>,
      <<"%d", "-", "%m", "-", "%Y">>,
      <<"%Y", "/", "%m", "/", "%d">>>>

Directives == {"%Y", "%m", "%d", "%H", "%M", "%S"}

\* len(fmt): a directive is two characters of the format string.
RECURSIVE FormatLen(_)
FormatLen(fmt) ==
    IF fmt = <<>> THEN 0
    ELSE (IF Head(fmt) \in Directives THEN 2 ELSE 1) + FormatLen(Tail(fmt))

\* date_str[:n]
Prefix(s, n) == IF Len(s) <= n THEN s ELSE SubSeq(s, 1, n)

NoField == [ok |-> FALSE, value |-> 0, next |-> 0]

\* What a directive of strptime takes at position i: %Y four digits, the
\* others one or two digits within their range (%d also a space and a digit).
\* The directive is followed by a literal or the end, so it takes every digit
\* that stands there.
Directive(tok, s, i) ==
    LET run == DigitRun(s, i)
        value == ToInt(SubSeq(s, i, i + run - 1))
        fits == CASE tok = "%Y" -> run = 4
                  [] tok = "%m" -> (run = 1 /\ value >= 1) \/ (run = 2 /\ value \in 1..12)
                  [] tok = "%d" -> (run = 1 /\ value >= 1) \/ (run = 2 /\ value \in 1..31)
                  [] tok = "%H" -> run \in {1, 2} /\ value <= 23
                  [] tok = "%M" -> run \in {1, 2} /\ value <= 59
                  [] tok = "%S" -> run \in {1, 2} /\ value <= 61
    IN  IF run > 0
        THEN (IF fits THEN [ok |-> TRUE, value |-> value, next |-> i + run] ELSE NoField)
        ELSE IF /\ tok = "%d"
                /\ i < Len(s)
                /\ s[i] = " "
                /\ DigitRun(s, i + 1) = 1
                /\ s[i + 1] # "0"
        THEN [ok |-> TRUE, value |-> DigitValue[s[i + 1]], next |-> i + 2]
        ELSE NoField

NoParse == [ok |-> FALSE, dt |-> Datetime(0, 0, 0)]

\* The fields strptime starts from.
FieldDefaults ==
    [tok \in Directives |-> IF tok = "%Y" THEN 1900 ELSE IF tok \in {"%m", "%d"} THEN 1 ELSE 0]

\* strptime's match of s from position i against fmt from token k on: the
\* whole of s has to be used up.
RECURSIVE StrptimeFrom(_, _, _, _, _)
StrptimeFrom(s, i, fmt, k, got) ==
    IF k > Len(fmt)
    THEN (IF i = Len(s) + 1 THEN [ok |-> TRUE, got |-> got]
          ELSE [ok |-> FALSE, got |-> got])
    ELSE IF fmt[k] \in Directives
    THEN LET f == Directive(fmt[k], s, i)
         IN  IF f.ok
             THEN StrptimeFrom(s, f.next, fmt, k + 1, [got EXCEPT ![fmt[k]] = f.value])
             ELSE [ok |-> FALSE, got |-> got]
    ELSE IF fmt[k] = " "
    THEN (IF Spaces(s, i) > i THEN StrptimeFrom(s, Spaces(s, i), fmt, k + 1, got)
          ELSE [ok |-> FALSE, got |-> got])
    ELSE IF i <= Len(s) /\ LowerChar(s[i]) = LowerChar(fmt[k])
    THEN StrptimeFrom(s, i + 1, fmt, k + 1, got)
    ELSE [ok |-> FALSE, got |-> got]

\* The datetime strptime builds from the fields it matched, or ValueError for
\* a day the month does not have or a second above 59.
FromFields(r) ==
    IF ~r.ok THEN NoParse
    ELSE IF r.got["%d"] > DaysInMonth(r.got["%Y"], r.got["%m"]) \/ r.got["%S"] > 59
    THEN NoParse
    ELSE [ok |-> TRUE,
          dt |-> Datetime(Ordinal(r.got["%Y"], r.got["%m"], r.got["%d"]),
                          r.got["%H"] * 3600 + r.got["%M"] * 60 + r.got["%S"], 0)]

\* datetime.strptime(s, fmt): the datetime, or ValueError (no match, text left
\* over, a day the month does not have, a second above 59).
strptime(s, fmt) == FromFields(StrptimeFrom(s, 1, fmt, 1, FieldDefaults))

\* A datetime object as the value of a record's field.
DatetimeValue(dt) == [tag |-> "datetime", s |-> <<>>, dt |-> dt]

\* A text, None or an absent key as the value of a record's date field.
DateField(v) == [tag |-> v.tag, s |-> v.s, dt |-> Datetime(0, 0, 0)]

\* The first of the attempts that succeeded, in the order they are made; none
\* when every one failed.
FirstOk(tried) ==
    IF \A k \in DOMAIN tried : ~tried[k].ok THEN NoParse
    ELSE tried[CHOOSE k \in DOMAIN tried :
                   tried[k].ok /\ \A j \in DOMAIN tried : tried[j].ok => k <= j]

\* _parse_date (lines 39-65): a datetime is returned as it is, a value that is
\* not a str gives None, a str is cut to len(fmt) characters and handed to
\* strptime, format after format.
_parse_date(date_str) ==
    IF date_str.tag = "datetime" THEN [ok |-> TRUE, dt |-> date_str.dt]
    ELSE IF date_str.tag # "str" THEN NoParse
    ELSE FirstOk([k \in 1..Len(DateFormats) |->
                     strptime(Prefix(date_str.s, FormatLen(DateFormats[k])),
                              DateFormats[k])])

\* (\d+)\s*<unit>s?\s*ago at position i of the lowercased text.
AgoAt(s, i, unit) ==
    LET run == DigitRun(s, i)
        word == Literal(s, Spaces(s, i + run), unit)
        ago == Literal(s, Spaces(s, Optional(s, word, "s")), <<"a", "g", "o">>)
    IN  IF run = 0 THEN NoMatch
        ELSE IF word = 0 THEN NoMatch
        ELSE IF ago = 0 THEN NoMatch
        ELSE Match(<<SubSeq(s, i, i + run - 1)>>)

\* re.search of the pattern: the leftmost match.
AgoSearch(s, unit) ==
    LET hits == {i \in 1..Len(s) : AgoAt(s, i, unit).matched}
    IN  IF hits = {} THEN NoMatch
        ELSE AgoAt(s, CHOOSE i \in hits : \A j \in hits : i <= j, unit)

RecentIndicators ==
    {<<"p", "o", "s", "t", "e", "d", " ", "t", "o", "d", "a", "y">>,
     <<"p", "o", "s", "t", "e", "d", " ", "y", "e", "s", "t", "e", "r", "d", "a", "y">>,
     <<"j", "u", "s", "t", " ", "p", "o", "s", "t", "e", "d">>,
     <<"n", "e", "w", " ", "p", "o", "s", "t", "i", "n", "g">>}

\* _extract_date_from_text (lines 67-89), with `now` the time of its own
\* datetime.now().
_extract_date_from_text(text, now) ==
    LET text_lower == Lower(text)
        days_match == AgoSearch(text_lower, <<"d", "a", "y">>)
        weeks_match == AgoSearch(text_lower, <<"w", "e", "e", "k">>)
    IN  IF \E indicator \in RecentIndicators : Contains(text_lower, indicator)
        THEN [ok |-> TRUE, dt |-> now]
        ELSE IF days_match.matched
        THEN [ok |-> TRUE, dt |-> MinusDays(now, ToInt(days_match.groups[1]))]
        ELSE IF weeks_match.matched
        THEN [ok |-> TRUE, dt |-> MinusDays(now, 7 * ToInt(weeks_match.groups[1]))]
        ELSE NoParse

date_fields == <<"posted_date", "created_at", "published", "date_posted", "updated_at">>

\* The for loop of is_job_recent (lines 19-23) from field k on: the first
\* field that is in the record and parses decides.
FirstParsedField(job_data, k) ==
    FirstOk([j \in k..Len(date_fields) |->
                IF job_data[date_fields[j]].tag = "absent" THEN NoParse
                ELSE _parse_date(job_data[date_fields[j]])])

\* Lines 22-23 and 33-37 of is_job_recent: the field's date decides, else the date found
\* in the text, else the job is kept.
RecentBy(job_date, date_from_text, cutoff_date) ==
    IF job_date.ok THEN AtOrAfter(job_date.dt, cutoff_date)
    ELSE IF date_from_text.ok THEN AtOrAfter(date_from_text.dt, cutoff_date)
    ELSE TRUE

\* JobDateFilter.is_job_recent (lines 13-37).
is_job_recent(job_data, cutoff_date, now) ==
    RecentBy(FirstParsedField(job_data, 1),
             _extract_date_from_text(PyStr(DictGet(job_data.title, Str(<<>>))) \o <<" ">>
                                       \o PyStr(DictGet(job_data.description, Str(<<>>))),
                                     now),
             cutoff_date)

\* The run of the model starts on 20 March 2024 at noon, on the second or a
\* few microseconds after it.
Nows == {Datetime(Ordinal(2024, 3, 20), 43200, us) : us \in {0, 7}}

\* The values of posted_date: texts, and datetimes at noon of the day before
\* the cutoff's, of its day and of the day after.
PostedDates ==
    {DateField(Absent), DateField(None)}
    \cup {DateField(Str(x)) : x \in {<<"2", "0", "2", "0", "-", "0", "1", "-", "0", "5">>,
                                     <<"2", "0", "2", "4", "-", "3", "-", "1">>,
                                     <<"2", "0", "2", "4", "-", "3", "-", "9">>,
                                     <<"2", "0", "2", "4", "-", "3", "-", "1", "5">>,
                                     <<"2", "0", "2", "4", "-", "0", "3", "-", "1", "8">>,
                                     <<"2", "0", "2", "4", "-", "3", "-", "5">>,
                                     <<"5", "/", "3", "/", "2", "0", "2", "4">>}}
    \cup {DatetimeValue(Datetime(Ordinal(2024, 3, d), 43200, 0)) : d \in {4, 5, 6}}

CreatedDates ==
    {DateField(Absent), DateField(Str(<<"2", "0", "2", "4", "-", "3", "-", "9">>))}

DatedDescriptions ==
    {Str(<<"t", "e", "x", "t">>),
     Str(<<"P", "o", "s", "t", "e", "d", " ", "3", "0", " ", "d", "a", "y", "s", " ", "a", "g", "o">>),
     Str(<<"P", "o", "s", "t", "e", "d", " ", "2", " ", "w", "e", "e", "k", "s", " ", "a", "g", "o">>)}

DatedRecords ==
    [title : {Str(ItemTitle)},
     description : DatedDescriptions,
     posted_date : PostedDates,
     created_at : CreatedDates,
     published : {DateField(Absent)},
     date_posted : {DateField(Absent)},
     updated_at : {DateField(Absent)}]

\* The longest list the filter is given.
MaxDated == 2

DatedLists == UNION {[1..n -> DatedRecords] : n \in 0..MaxDated}

DateFilterIdle ==
    /\ df_now = Datetime(0, 0, 0)
    /\ df_cutoff = Datetime(0, 0, 0)
    /\ df_jobs = <<>>
    /\ df_idx = 0
    /\ df_recent = <<>>
    /\ df_kept = <<>>
    /\ df_pc = "idle"

\* JobDateFilter(days_back) constructed (line 10) and filter_recent_jobs
\* entered (lines 93-94).
DateFilterInit ==
    /\ df_now \in Nows
    /\ df_cutoff = MinusDays(df_now, DefaultDaysBack)
    /\ df_jobs \in DatedLists
    /\ df_idx = 1
    /\ df_recent = <<>>
    /\ df_kept = <<>>
    /\ df_pc = "loop"

\* for job in jobs: one iteration (lines 96-98). The datetime.now() of
\* _extract_date_from_text is the construction's or later.
FilterLoop ==
    /\ df_pc = "loop"
    /\ df_idx <= Len(df_jobs)
    /\ \E later \in {0, 1} :
          LET now == [df_now EXCEPT !.us = @ + later]
              recent == is_job_recent(df_jobs[df_idx], df_cutoff, now)
          IN  /\ df_recent' = IF recent THEN Append(df_recent, df_jobs[df_idx])
                              ELSE df_recent
              /\ df_kept' = IF recent THEN Append(df_kept, df_idx) ELSE df_kept
    /\ df_idx' = df_idx + 1
    /\ UNCHANGED <<df_now, df_cutoff, df_jobs, df_pc>>
    /\ UNCHANGED notDateFilter

\* return recent_jobs (lines 100-104).
FilterReturn ==
    /\ df_pc = "loop"
    /\ df_idx > Len(df_jobs)
    /\ df_pc' = "returned"
    /\ UNCHANGED <<df_now, df_cutoff, df_jobs, df_idx, df_recent, df_kept>>
    /\ UNCHANGED notDateFilter

DateFilterNext == FilterLoop \/ FilterReturn

\* ------------------------------------------------------------ specifications
vars ==
    <<dedupVars, fetchVars, parseVars, runVars, detectorVars, classifierVars,
      salaryVars, dateFilterVars>>

InitDedup ==
    /\ DedupInit
    /\ FetchIdle /\ ParseIdle /\ RunIdle /\ DetectorIdle /\ ClassifierIdle
    /\ SalaryIdle /\ DateFilterIdle

SpecDedup == InitDedup /\ [][DedupNext]_vars

InitFetch ==
    /\ FetchInit
    /\ DedupIdle /\ ParseIdle /\ RunIdle /\ DetectorIdle /\ ClassifierIdle
    /\ SalaryIdle /\ DateFilterIdle

SpecFetch == InitFetch /\ [][FetchNext]_vars

InitParse ==
    /\ ParseInit
    /\ DedupIdle /\ FetchIdle /\ RunIdle /\ DetectorIdle /\ ClassifierIdle
    /\ SalaryIdle /\ DateFilterIdle

SpecParse == InitParse /\ [][ParseNext]_vars

InitRun ==
    /\ RunInit
    /\ DedupIdle /\ FetchIdle /\ ParseIdle /\ DetectorIdle /\ ClassifierIdle
    /\ SalaryIdle /\ DateFilterIdle

SpecRun == InitRun /\ [][RunNext]_vars

InitDetector ==
    /\ DetectorInit
    /\ DedupIdle /\ FetchIdle /\ ParseIdle /\ RunIdle /\ ClassifierIdle
    /\ SalaryIdle /\ DateFilterIdle

SpecDetector == InitDetector /\ [][DetectorNext]_vars

InitClassifier ==
    /\ ClassifierInit
    /\ DedupIdle /\ FetchIdle /\ ParseIdle /\ RunIdle /\ DetectorIdle
    /\ SalaryIdle /\ DateFilterIdle

SpecClassifier == InitClassifier /\ [][ClassifierNext]_vars

InitSalary ==
    /\ SalaryInit
    /\ DedupIdle /\ FetchIdle /\ ParseIdle /\ RunIdle /\ DetectorIdle /\ ClassifierIdle
    /\ DateFilterIdle

SpecSalary == InitSalary /\ [][SalaryNext]_vars

InitDateFilter ==
    /\ DateFilterInit
    /\ DedupIdle /\ FetchIdle /\ ParseIdle /\ RunIdle /\ DetectorIdle /\ ClassifierIdle
    /\ SalaryIdle

SpecDateFilter == InitDateFilter /\ [][DateFilterNext]_vars

\* A run of scrape_all_sources, and beside it a scraper that is constructed and
\* used on its own, entered by `async with` or not.
SessionsNext == RunNext \/ FetchNext

InitSessions ==
    /\ RunInit
    /\ config_file \in {"ok", "empty"}
    /\ Len(sources) \in {0, 4}
    /\ WORKDAY_AVAILABLE /\ SMARTRECRUITERS_AVAILABLE
    /\ FetchInit
    /\ adapter = "single"
    /\ rate_limit = RunnerRateLimit
    /\ DedupIdle /\ ParseIdle /\ DetectorIdle /\ ClassifierIdle
    /\ SalaryIdle /\ DateFilterIdle

SpecSessions == InitSessions /\ [][SessionsNext]_vars

\* ------------------------------------------------------------ deduplicator: properties
\* The key of a record: job.get('apply_url', '').strip().
TrimmedUrl(job) == Strip(DictGet(job.apply_url, Str(<<>>)).s)

RECURSIVE IsSubsequence(_, _)
IsSubsequence(a, b) ==
    IF a = <<>> THEN TRUE
    ELSE IF b = <<>> THEN FALSE
    ELSE IF Head(a) = Head(b) THEN IsSubsequence(Tail(a), Tail(b))
    ELSE IsSubsequence(a, Tail(b))

\* The records appended before the loop reached position j of jobs.
AcceptedBefore(j) ==
    LET ks == {k \in 1..Len(accepted_at) : accepted_at[k] < j}
    IN  IF ks = {} THEN <<>>
        ELSE [k \in 1..Cardinality(ks) |-> jobs[accepted_at[k]]]

\* C1: deduplicate_jobs run on the list it returned (with no known-URL set or
\* with the same one) returns the same records in the same order.
C1_Idempotent ==
    (dpc = "returned" /\ second.pc # "none")
        => (second.pc = "returned" /\ second.unique = unique_jobs)

C1_Witness ==
    /\ dpc = "returned"
    /\ second.pc = "returned"
    /\ second.given # {}
    /\ Len(unique_jobs) = 2
    /\ Len(jobs) = 3

\* C2: every record of the result has a non-empty trimmed apply_url, and no
\* two records of the result have the same trimmed apply_url.
C2_UrlInvariant ==
    /\ \A k \in 1..Len(unique_jobs) :
          /\ unique_jobs[k].apply_url.tag = "str"
          /\ TrimmedUrl(unique_jobs[k]) # <<>>
    /\ \A k1, k2 \in 1..Len(unique_jobs) :
          k1 # k2 => TrimmedUrl(unique_jobs[k1]) # TrimmedUrl(unique_jobs[k2])

C2_Witness ==
    /\ dpc = "returned"
    /\ Len(unique_jobs) = 1
    /\ \E i, j \in 1..Len(jobs) :
          /\ i < j
          /\ jobs[i].apply_url = Str(Url1)
          /\ jobs[j].apply_url = Str(Url1Spaced)
    /\ \E i \in 1..Len(jobs) : jobs[i].apply_url = Str(Blank)

\* C3: the result is a subsequence of the input: its records are input
\* records, in the input's relative order.
C3_Subsequence == IsSubsequence(unique_jobs, jobs)

C3_Witness ==
    /\ dpc = "returned"
    /\ Len(jobs) = 3
    /\ Len(unique_jobs) = 2
    /\ unique_jobs[1] = jobs[1]
    /\ unique_jobs[2] = jobs[3]
    /\ jobs[1] # jobs[3]

BackendJob == Job(Str(Url1), Str(BackendEngineer), Str(Acme))
BackendRemoteJob == Job(Str(Url2), Str(BackendEngineerRemote), Str(Acme))
FrontendJob == Job(Str(Url2), Str(FrontendDesigner), Str(Acme))

\* C4 as claimed: of "Backend Engineer" and "Backend Engineer (Remote)" at one
\* company under different URLs the second is dropped; "Backend Engineer" and
\* "Frontend Designer" are both kept.
C4_AsClaimed ==
    (dpc = "returned" /\ existing_urls = {})
        => /\ jobs = <<BackendJob, BackendRemoteJob>> => unique_jobs = <<BackendJob>>
           /\ jobs = <<BackendJob, FrontendJob>> => unique_jobs = jobs

\* C4, amended: the word sets of "Backend Engineer" and "Backend Engineer
\* (Remote)" have Jaccard similarity 2/3, which is not above 0.8, so both
\* records are kept; "Backend Engineer" and "Frontend Designer" are both kept.
C4_BothKept ==
    /\ _similarity_score(Strip(Lower(BackendEngineerRemote)),
                         Strip(Lower(BackendEngineer))) = [num |-> 2, den |-> 3]
    /\ (dpc = "returned" /\ existing_urls = {})
        => /\ jobs = <<BackendJob, BackendRemoteJob>> => unique_jobs = jobs
           /\ jobs = <<BackendJob, FrontendJob>> => unique_jobs = jobs

C4_Witness ==
    /\ dpc = "returned"
    /\ existing_urls = {}
    /\ jobs = <<BackendJob, BackendRemoteJob>>
    /\ unique_jobs = <<BackendJob, BackendRemoteJob>>

TitleWords(job) == SeqToSet(Split(Lower(DictGet(job.title, Str(<<>>)).s)))

\* The company of a record, lower-cased and trimmed.
CompanyKey(job) == Strip(Lower(DictGet(job.company, Str(<<>>)).s))

\* Same company, and |A n B| / |A u B| > 0.8 for the two titles' word sets.
NearDuplicateOf(job, other) ==
    /\ CompanyKey(job) = CompanyKey(other)
    /\ TitleWords(job) \cup TitleWords(other) # {}
    /\ 10 * Cardinality(TitleWords(job) \cap TitleWords(other))
           > 8 * Cardinality(TitleWords(job) \cup TitleWords(other))

\* The loop decides on jobs[idx], whose URL is not in the seen set.
DecidesUnseen ==
    /\ dpc = "loop"
    /\ idx <= Len(jobs)
    /\ dpc' = "loop"
    /\ jobs[idx].apply_url.tag # "none"
    /\ TrimmedUrl(jobs[idx]) # <<>>
    /\ TrimmedUrl(jobs[idx]) \notin seen_urls

\* C21 as claimed: a record whose URL has not been seen is dropped if and only
\* if some record accepted before it has the same company and a title of
\* Jaccard similarity above 0.8.
C21_AsClaimed ==
    [][DecidesUnseen =>
          (unique_jobs' = unique_jobs
              <=> \E k \in 1..Len(unique_jobs) : NearDuplicateOf(jobs[idx], unique_jobs[k]))]_vars

\* C21, amended: a record whose URL has not been seen is dropped if and only if
\* its trimmed title and company are both non-empty and some record accepted
\* before it has the same company and a title of Jaccard similarity above 0.8;
\* records dropped before it are not compared against.
C21_NearDuplicateDropped ==
    [][DecidesUnseen =>
          (unique_jobs' = unique_jobs
              <=> /\ CompanyKey(jobs[idx]) # <<>>
                  /\ TitleWords(jobs[idx]) # {}
                  /\ \E k \in 1..Len(unique_jobs) :
                        NearDuplicateOf(jobs[idx], unique_jobs[k]))]_vars

\* A record dropped for its title alone under a URL of its own, and after it a
\* record kept whose title has similarity exactly 0.8 with the accepted one.
C21_Witness ==
    /\ dpc = "returned"
    /\ existing_urls = {}
    /\ Len(jobs) = 3
    /\ accepted_at = <<1, 3>>
    /\ NearDuplicateOf(jobs[2], jobs[1])
    /\ TrimmedUrl(jobs[2]) # TrimmedUrl(jobs[1])
    /\ CompanyKey(jobs[3]) = CompanyKey(jobs[1])
    /\ 10 * Cardinality(TitleWords(jobs[3]) \cap TitleWords(jobs[1]))
           = 8 * Cardinality(TitleWords(jobs[3]) \cup TitleWords(jobs[1]))

\* C27: no step of deduplicate_jobs changes the caller's known-URL set or the
\* input list, and every record of the result is the input record at the
\* position it was accepted from, as it stood in the input; a second call
\* leaves the set it was given as it was.
C27_InputsUntouched ==
    [][/\ existing_urls' = existing_urls
       /\ jobs' = jobs
       /\ Len(unique_jobs') = Len(accepted_at')
       /\ \A k \in 1..Len(unique_jobs') : unique_jobs'[k] = jobs[accepted_at'[k]]
       /\ second'.existing = second'.given]_vars

\* A call with a known URL that dropped the record carrying it and accepted
\* two others, and a second call given the same set.
C27_Witness ==
    /\ dpc = "returned"
    /\ existing_urls = {Url1}
    /\ Len(jobs) = 3
    /\ Len(unique_jobs) = 2
    /\ seen_urls # existing_urls
    /\ \E k \in 1..Len(jobs) :
          jobs[k].apply_url.tag = "str" /\ TrimmedUrl(jobs[k]) = Url1
    /\ second.pc = "returned"
    /\ second.given = {Url1}

\* C28: at every point of the loop the seen-URL set is the known URLs plus the
\* trimmed URLs of the records accepted so far; and a record with a URL that
\* is not known and that no record accepted before it carries, which is no
\* near-duplicate of a record accepted before it, is accepted, whether or not
\* a dropped record carried that URL.
C28_SeenIsKnownPlusAccepted ==
    /\ seen_urls = existing_urls
                     \cup {TrimmedUrl(unique_jobs[k]) : k \in 1..Len(unique_jobs)}
    /\ dpc = "returned" =>
          \A i \in 1..Len(jobs) :
              (/\ jobs[i].apply_url.tag = "str"
               /\ TrimmedUrl(jobs[i]) # <<>>
               /\ TrimmedUrl(jobs[i]) \notin existing_urls
               /\ \A k \in 1..Len(AcceptedBefore(i)) :
                     /\ TrimmedUrl(AcceptedBefore(i)[k]) # TrimmedUrl(jobs[i])
                     /\ ~NearDuplicateOf(jobs[i], AcceptedBefore(i)[k]))
                  => \E k \in 1..Len(accepted_at) : accepted_at[k] = i

\* A near-duplicate dropped under a URL of its own, and after it a record with
\* that URL and a dissimilar title accepted.
C28_Witness ==
    /\ dpc = "returned"
    /\ Len(jobs) = 3
    /\ accepted_at = <<1, 3>>
    /\ NearDuplicateOf(jobs[2], jobs[1])
    /\ TrimmedUrl(jobs[2]) # TrimmedUrl(jobs[1])
    /\ TrimmedUrl(jobs[3]) = TrimmedUrl(jobs[2])
    /\ seen_urls = {TrimmedUrl(jobs[1]), TrimmedUrl(jobs[3])}

\* ------------------------------------------------------------ fetch client: properties
\* A failure the spec calls transient: a timeout, a connection error, a 5xx.
TransientFailure(r) ==
    r.exc \in {"TimeoutError", "ClientConnectionError"} \/ r.status \in {500, 503}

\* A fetch that did not deliver a parsed 2xx body.
FailedFetch(r) ==
    \/ r.exc # ""
    \/ r.status < 200
    \/ r.status > 299
    \/ (r.ctype = "application/json" /\ r.body = "corrupt")

\* C7: a transient failure is retried, and "no data" is reported for it only
\* after max_retries attempts have been made.
C7_RetriesBeforeNoData ==
    (fpc = "returned" /\ fresult = NoData /\ TransientFailure(fresp))
        => attempts = max_retries

\* C8: with a session, fetch_url never raises; every non-2xx status, timeout,
\* connection error and unparsable JSON body comes back as None, and a JSON
\* result is always the fully parsed body of a 200 response.
C8_NoDataNeverRaised ==
    /\ session # "none" => fpc # "raised"
    /\ fpc = "returned" =>
          /\ fresult # Pending
          /\ FailedFetch(fresp) => fresult = NoData
          /\ fresult.kind = "json" =>
                /\ fresp.status = 200
                /\ fresp.body # "corrupt"
                /\ fresult.shape = fresp.body

C8_Witness ==
    /\ session = "open"
    /\ fpc = "returned"
    /\ fresp.status = 200
    /\ fresp.body = "corrupt"
    /\ fresult = NoData

\* C9: every request in the scraper's history comes right after a sleep of at
\* least rate_limit made for it, so any two requests of the scraper are at
\* least rate_limit apart.
C9_DelayBeforeRequest ==
    \A i \in 1..Len(net_log) :
        net_log[i].ev = "get" =>
            /\ i > 1
            /\ net_log[i - 1].ev = "sleep"
            /\ net_log[i - 1].url = net_log[i].url
            /\ net_log[i - 1].dur >= rate_limit
            /\ \A j \in 1..(i - 1) :
                  net_log[j].ev = "get" => net_log[i].at - net_log[j].at >= rate_limit

C9_Witness ==
    /\ adapter = "careers"
    /\ rate_limit > 0
    /\ apc = "done"
    /\ Cardinality({i \in 1..Len(net_log) : net_log[i].ev = "get"}) = Len(ApiUrls) + 1

\* C25: the career-page adapter requests the careers page only after it has
\* requested every one of its endpoints, and none of them yielded a job.
C25_HtmlAfterAllEndpoints ==
    \A k \in 1..Len(net_log) :
        (adapter = "careers" /\ net_log[k].ev = "get" /\ net_log[k].url = CareersUrl)
            => /\ ajobs # "api"
               /\ \A e \in 1..Len(ApiUrls) :
                     \E j \in 1..(k - 1) :
                        net_log[j].ev = "get" /\ net_log[j].url = ApiUrls[e]

\* ------------------------------------------------------------ adapters: properties
\* C10: every record an adapter's scrape_jobs holds has a non-empty apply_url;
\* an item with no resolvable apply URL is discarded.
C10_NonEmptyApplyUrl ==
    \A k \in 1..Len(p_jobs) :
        p_jobs[k].apply_url.tag = "str" /\ p_jobs[k].apply_url.s # <<>>

RECURSIVE SuccessfulJobs(_, _)
\* The records of the items whose parse gives one, in item order.
SuccessfulJobs(a, items) ==
    IF items = <<>> THEN <<>>
    ELSE AppendParsed(<<>>, ParseItem(a, Head(items))) \o SuccessfulJobs(a, Tail(items))

\* C11: an exception raised while parsing one item skips only that item: what
\* scrape_jobs returns from an item list is the records of all the items that
\* parse, before and after the one that raised.
C11_ItemIsolated ==
    (ppc = "returned" /\ Extraction(p_adapter, p_payload) \in {"items", "chars"})
        => p_jobs = SuccessfulJobs(p_adapter, p_items)

\* C12: scrape_jobs does not raise, whatever the shape of the payload.
C12_NeverRaises == ppc # "raised"

\* The last position at which sep stands in s.
FindLast(s, sep) ==
    CHOOSE i \in 1..(Len(s) - Len(sep) + 1) :
        /\ SubSeq(s, i, i + Len(sep) - 1) = sep
        /\ \A j \in (i + 1)..(Len(s) - Len(sep) + 1) : SubSeq(s, j, j + Len(sep) - 1) # sep

\* C14: for a feed entry whose title contains " at ", the record's company is
\* the trimmed text after the last " at " and its title the trimmed text
\* before it.
C14_SplitOnLastAt ==
    (ppc = "returned" /\ p_adapter \in {"wwr", "remoteok_rss"}) =>
        \A k \in 1..Len(p_items) :
            LET entry == p_items[k]
                parsed == ParseItem(p_adapter, entry)
                i == FindLast(entry.title.s, At)
            IN  (parsed.kind = "job" /\ Contains(entry.title.s, At)) =>
                    /\ parsed.job \in SeqToSet(p_jobs)
                    /\ parsed.job.title = Str(Strip(SubSeq(entry.title.s, 1, i - 1)))
                    /\ parsed.job.company =
                          Str(Strip(SubSeq(entry.title.s, i + Len(At), Len(entry.title.s))))

\* C24: the Lever adapter gives a posting the first non-empty of applyUrl,
\* hostedUrl and the link made of the company slug and the posting id as its
\* apply URL.
C24_OrderedFallback ==
    [][(/\ ppc = "loop"
        /\ p_adapter = "lever"
        /\ p_idx <= Len(p_items)
        /\ Len(p_jobs') = Len(p_jobs) + 1)
          => LET item == p_items[p_idx]
                 apply_url == p_jobs'[Len(p_jobs')].apply_url
             IN  IF Truthy(item.applyUrl) THEN apply_url = item.applyUrl
                 ELSE IF Truthy(item.hostedUrl) THEN apply_url = item.hostedUrl
                 ELSE Truthy(item.id)
                          => apply_url = Str(LeverJobsUrl \o CompanySlug \o <<"/">> \o item.id.s)]_vars

\* ------------------------------------------------------------ orchestrator: properties
\* The records of all_jobs that came from source i, in order.
RecordsFrom(i) == SelectSeq(all_jobs, LAMBDA r : r.src = i)

\* Source i's turn ended with no data from its fetch or with an exception.
SourceFailed(i) == ran[i] \in {"nodata", "raised"}

\* C6: a source whose fetch gives no data or whose adapter raises adds no
\* record and does not end the run: the run returns, and every source after
\* it that the loops run is still scraped and its records are in all_jobs.
C6_FailureIsolated ==
    /\ rpc = "raised" => config_file \in {"unparsable", "empty"}
    /\ rpc = "returned" =>
          \A i \in 1..Len(sources) :
              SourceFailed(i) =>
                  /\ RecordsFrom(i) = <<>>
                  /\ \A j \in (i + 1)..Len(sources) :
                        Eligible(j) =>
                            /\ ran[j] \in {"nodata", "raised", "ok"}
                            /\ ran[j] = "ok" =>
                                  /\ yielded[j] # <<>>
                                  /\ RecordsFrom(j) =
                                        Contribution(sources[j].section, yielded[j])

C6_Witness ==
    /\ rpc = "returned"
    /\ \E i, j \in 1..Len(sources) :
          /\ i < j
          /\ ran[i] = "raised"
          /\ sources[i].complete
          /\ ran[j] = "ok"
          /\ RecordsFrom(j) # <<>>
    /\ \E i, j \in 1..Len(sources) :
          /\ i < j
          /\ ran[i] = "nodata"
          /\ RecordsFrom(j) # <<>>

\* C18: when the configuration cannot be loaded (file missing or unparsable),
\* the run ends as failed, not as completed.
C18_ConfigFailureFails ==
    (config_file \in {"missing", "unparsable"} /\ main_result.status # "none")
        => main_result.status = "failed"

\* C19: once the configuration is loaded, the run does not end as failed.
C19_OnlyConfigFails == config_file = "ok" => main_result.status # "failed"

\* The places in source i's returned list of the records that are in all_jobs.
AggregatedFrom(i) == {all_jobs[k].n : k \in {j \in 1..Len(all_jobs) : all_jobs[j].src = i}}

\* C30: a record in all_jobs that came from an ATS source was judged remote by
\* the detector and carries remote = TRUE, and of the list an ATS source
\* returned exactly the records judged remote are in all_jobs; a feed's
\* records are all in all_jobs as they were returned, and only a feed marked
\* working has records there.
C30_AtsRemoteOnly ==
    /\ \A k \in 1..Len(all_jobs) :
          LET r == all_jobs[k]
              e == sources[r.src]
          IN  /\ r = [yielded[r.src][r.n] EXCEPT !.remote = IF IsAts(e.section) THEN TRUE ELSE @]
              /\ IsAts(e.section) => r.verdict /\ r.remote = TRUE
              /\ ~IsAts(e.section) => e.section \in {"rss", "json"} /\ e.working
    /\ \A i \in 1..Len(sources) :
          ran[i] = "ok" =>
              IF IsAts(sources[i].section)
              THEN AggregatedFrom(i) = {n \in 1..Len(yielded[i]) : yielded[i][n].verdict}
              ELSE RecordsFrom(i) = yielded[i]

\* A run that returned with an ATS source of which one record was dropped and
\* one kept with its flag set, and with a feed's record that was judged not
\* remote, and one flagged not remote, in all_jobs.
C30_Witness ==
    /\ rpc = "returned"
    /\ \E i \in 1..Len(sources) :
          /\ IsAts(sources[i].section)
          /\ Len(yielded[i]) = 2
          /\ ~yielded[i][1].verdict
          /\ yielded[i][2].verdict /\ ~yielded[i][2].remote
          /\ AggregatedFrom(i) = {2}
    /\ \E k, l \in 1..Len(all_jobs) :
          /\ ~IsAts(sources[all_jobs[k].src].section) /\ ~all_jobs[k].verdict
          /\ ~IsAts(sources[all_jobs[l].src].section) /\ ~all_jobs[l].remote

\* The sources whose scraper holds an open session.
OpenSessions == {i \in 1..Len(sessions) : sessions[i] = "open"}

\* C29: during scrape_all_sources at most one scraper session is open, no
\* session is open when a source's turn starts or when the function has
\* returned, whether the adapter returned or raised; and a fetch_url call on a
\* scraper that never opened a session raises with no request issued.
C29_SessionsClosed ==
    /\ Cardinality(OpenSessions) <= 1
    /\ rpc \in {"open", "scraped"} => OpenSessions = {pos}
    /\ rpc \in {"loop", "returned"} => OpenSessions = {}
    /\ \A i \in 1..Len(sessions) :
          ran[i] \in {"ok", "nodata", "raised"} => sessions[i] # "open"
    /\ session = "none" =>
          /\ net_log = <<>>
          /\ apc \in {"one", "api", "html"} => fpc \in {"idle", "raised"}

\* Two sources behind, one whose adapter raised and one that returned records,
\* both with their session closed, a third being scraped; and beside the run a
\* scraper never entered whose fetch_url was called.
C29_Witness ==
    /\ rpc = "scraped"
    /\ \E i, j \in 1..Len(sources) :
          /\ i < pos /\ j < pos
          /\ ran[i] = "raised" /\ sessions[i] = "closed"
          /\ ran[j] = "ok" /\ sessions[j] = "closed"
    /\ sessions[pos] = "open"
    /\ session = "none"
    /\ fpc = "raised"
    /\ net_log = <<>>

\* ------------------------------------------------------------ remote detector: properties
\* C13: a record with exactly one low-confidence keyword and no other remote
\* signal (no always-remote company, no high-confidence keyword, no remote
\* token "remote", "anywhere", "worldwide", "global" or "distributed" in the
\* location, no "remote" or "wfh" in the title) is classified not remote; a
\* record with two distinct low-confidence keywords is classified remote.
C13_WeakSignalTiers ==
    rd_pc = "returned" =>
        LET text == _get_searchable_text_safe(rd_job)
            company == Lower(PyStr(DictGet(rd_job.company, Str(<<>>))))
            location == Lower(PyStr(DictGet(rd_job.location, Str(<<>>))))
            title == Lower(PyStr(DictGet(rd_job.title, Str(<<>>))))
            tokens == {<<"r", "e", "m", "o", "t", "e">>, <<"a", "n", "y", "w", "h", "e", "r", "e">>,
                       <<"w", "o", "r", "l", "d", "w", "i", "d", "e">>, <<"g", "l", "o", "b", "a", "l">>,
                       <<"d", "i", "s", "t", "r", "i", "b", "u", "t", "e", "d">>}
            other == \/ \E c \in AlwaysRemoteCompanies : Contains(company, c)
                     \/ \E k \in StrictKeywords : Contains(text, k)
                     \/ \E k \in tokens : Contains(location, k)
                     \/ Contains(title, <<"r", "e", "m", "o", "t", "e">>)
                     \/ Contains(title, <<"w", "f", "h">>)
        IN  /\ (flexible_matches(text) = 1 /\ ~other) => rd_verdict = FALSE
            /\ flexible_matches(text) >= 2 => rd_verdict = TRUE

\* C22: a record whose title contains "remote" or "wfh" is classified remote,
\* whatever its description, location and company.
C22_TitleAlone ==
    (/\ rd_pc = "returned"
     /\ \/ Contains(Lower(rd_job.title.s), <<"r", "e", "m", "o", "t", "e">>)
        \/ Contains(Lower(rd_job.title.s), <<"w", "f", "h">>))
        => rd_verdict = TRUE

\* C23: the remote flag the adapter computes for a record equals the Remote
\* Classifier's verdict for the same record.
C23_FlagIsVerdict ==
    (rd_pc = "returned" /\ rd_flag # "none")
        => rd_flag = (IF rd_verdict THEN "True" ELSE "False")

\* ------------------------------------------------------------ domain classifier: properties
\* The lowercased title and description classify_job works on.
ClassifiedTitle == Lower(PyStr(DictGet(cl_job.title, Str(<<>>))))
ClassifiedDescription == Lower(PyStr(DictGet(cl_job.description, Str(<<>>))))

\* The scores classifier c gives the record, by catalogue position.
ScoresOf(c) ==
    [k \in 1..Len(Catalogue(c)) |->
        DomainScore(c, k, ClassifiedTitle, ClassifiedDescription)]

\* C15: the classifier the orchestrator uses returns the domain whose score,
\* 5 times the keyword occurrences in the title plus the keyword occurrences
\* in the description, is the greatest positive one.
C15_TitleFiveDescriptionOne ==
    (cl_pc = "returned" /\ cl_classifier = "services" /\ cl_result.kind = "returned") =>
        LET claimed == [k \in 1..Len(ServicesCatalogue) |->
                          KeywordScore(ServicesCatalogue[k].keywords, 1, ClassifiedTitle,
                                       ClassifiedDescription, 5, TRUE)]
        IN  IF \E k \in DOMAIN claimed : claimed[k] > 0
            THEN \E k \in DOMAIN claimed :
                    /\ cl_result.domain = ServicesCatalogue[k].domain
                    /\ \A e \in DOMAIN claimed : claimed[e] <= claimed[k]
            ELSE cl_result.domain = "Other"

\* C16: when several domains reach the greatest score, classify_job returns
\* the one that comes first in the catalogue: no domain before the returned
\* one scores as much, and no domain after it scores more.
C16_TieFirstInCatalogue ==
    (cl_pc = "returned" /\ cl_result.kind = "returned" /\ cl_result.domain # "Other") =>
        LET scores == ScoresOf(cl_classifier)
            d == CHOOSE k \in DOMAIN scores :
                    Catalogue(cl_classifier)[k].domain = cl_result.domain
        IN  /\ scores[d] > 0
            /\ \A e \in DOMAIN scores : e < d => scores[e] < scores[d]
            /\ \A e \in DOMAIN scores : e > d => scores[e] <= scores[d]

C16_Witness ==
    /\ cl_pc = "returned"
    /\ cl_result.kind = "returned"
    /\ LET scores == ScoresOf(cl_classifier)
       IN  \E d, e \in DOMAIN scores :
              /\ d < e
              /\ scores[d] = scores[e]
              /\ scores[d] > 0
              /\ \A k \in DOMAIN scores : scores[k] <= scores[d]
              /\ cl_result.domain = Catalogue(cl_classifier)[d].domain

\* C17: classify_job returns "Other" for a record whose title and description
\* contain none of the catalogue keywords, and what it returns is always a
\* member of the closed domain set.
C17_OtherAndClosedSet ==
    cl_pc = "returned" =>
        /\ cl_result.kind = "returned"
        /\ cl_result.domain \in JobDomain
        /\ (\A k \in 1..Len(Catalogue(cl_classifier)) :
               \A i \in 1..Len(Catalogue(cl_classifier)[k].keywords) :
                  LET keyword == Lower(Catalogue(cl_classifier)[k].keywords[i])
                  IN  /\ ~Contains(ClassifiedTitle, keyword)
                      /\ ~Contains(ClassifiedDescription, keyword))
              => cl_result.domain = "Other"


\* ------------------------------------------------------------ salary extraction: properties
\* C20: every (min, max) pair extract_salary returns for a description text has
\* min <= max.
C20_MinAtMostMax ==
    (sal_pc = "returned" /\ sal_result.found) => sal_result.min_sal <= sal_result.max_sal


\* ------------------------------------------------------------ recency filter: properties
\* The value is a datetime or a plain YYYY-MM-DD text.
HoldsDate(v) == v.tag = "datetime" \/ (v.tag = "str" /\ strptime(v.s, DateFormats[1]).ok)

\* The date such a value holds.
DateHeld(v) == IF v.tag = "datetime" THEN v.dt ELSE strptime(v.s, DateFormats[1]).dt

\* C26: the filter's output is a subsequence of its input; a record whose
\* posted_date holds a date (a datetime, or a plain YYYY-MM-DD text) is kept if
\* the date is at or after the cutoff and dropped if it is earlier.
C26_CutoffRespected ==
    df_pc = "returned" =>
        /\ IsSubsequence(df_recent, df_jobs)
        /\ \A k \in 1..Len(df_jobs) :
              HoldsDate(df_jobs[k].posted_date)
                  => ((\E j \in 1..Len(df_kept) : df_kept[j] = k)
                        <=> AtOrAfter(DateHeld(df_jobs[k].posted_date), df_cutoff))

====
